---- MODULE Spec2Model ----
(***************************************************************************)
(* Reservation protocol of the distributed appointment scheduler:          *)
(* Service.CreateAppointment / ConfirmAppointment /                        *)
(* ExpirePendingAppointments running on several service instances against  *)
(* one Postgres store (appointments, event_logs) and one Redis lock store. *)
(* Every repository call and every Redis call is one atomic step; the      *)
(* clock may advance between any two steps.  The instances and Postgres    *)
(* read one clock; a value read from it is used by the steps that follow.  *)
(***************************************************************************)
EXTENDS Integers, Sequences, FiniteSets, TLC

\* ---------------------------------------------------------------- bounds
MaxTime == 2
MaxAppts == 2
MaxEvents == 2
\* ids of slots, patients and clinicians in a row of the hydrating query
MaxId == 2

\* ------------------------------------------------- configuration values
AppointmentTTL == 1
LockTTL == 2

\* ------------------------------------------------------- fixed entities
Procs == {"i1", "i2"}

\* patients table (read-only for the engine); id 2 is not in the table
PatientIds == {1, 2}
patients == {1}

\* appointment_slots table (read-only for the engine); id 3 is not in the table
SlotIds == {1, 2, 3}
slots == (1 :> "open") @@ (2 :> "blocked")

StatusPending == "pending"
StatusConfirmed == "confirmed"
StatusCancelled == "cancelled"
StatusExpired == "expired"
SlotOpen == "open"

EventAppointmentCreated == "APPOINTMENT_CREATED"
EventAppointmentConfirmed == "APPOINTMENT_CONFIRMED"
EventAppointmentExpired == "APPOINTMENT_EXPIRED"

\* ------------------------------------------------------------- errors
\* An error is the chain of its wrappers, outermost first; nil is <<>>.
nil == <<>>
ErrSlotAlreadyBooked == <<"ErrSlotAlreadyBooked">>
ErrSlotBeingBooked == <<"ErrSlotBeingBooked">>
ErrAppointmentExpiredState == <<"ErrAppointmentExpiredState">>
ErrInvalidStatusTransition == <<"ErrInvalidStatusTransition">>
ErrSlotNotOpen == <<"ErrSlotNotOpen">>
ErrPatientNotFound == <<"ErrPatientNotFound">>
ErrSlotNotFound == <<"ErrSlotNotFound">>
ErrAppointmentNotFound == <<"ErrAppointmentNotFound">>
ErrLockNotAcquired == <<"ErrLockNotAcquired">>
\* errors raised by the drivers
PgUniqueViolation == <<"pg:unique_violation">>
PgCheckViolation == <<"pg:check_violation">>
\* fmt.Errorf("data integrity error: ... IDs do not match")
IntegrityViolation == <<"data integrity error">>
DeadlineExceeded == <<"context deadline exceeded">>
StoreUnavailable == <<"pg:connection_failure">>
Canceled == <<"context canceled">>
\* an error returned by the function passed to WithSlotLock
BodyFailed == <<"fn error">>

\* fmt.Errorf("msg: %w", err)
Errorf(msg, err) == <<msg>> \o err

\* errors.Is(err, target) for a sentinel target
ErrorsIs(err, target) == \E i \in DOMAIN err : err[i] = target[1]

\* ------------------------------------------------------------- values
NoAppt == [id |-> 0, slot |-> 0, patient |-> 0, status |-> "none",
           created_at |-> 0, expires_at |-> 0]

NoLock == [val |-> 0, exp |-> 0]

\* the ids of the columns scanned by scanAppointmentDetail
Ids == 1..MaxId

\* the query returned no row (pgx.ErrNoRows at row.Scan)
NoRows == [a_slot_id |-> 0, a_patient_id |-> 0, s_id |-> 0, s_practitioner_id |-> 0,
           p_id |-> 0, c_id |-> 0]

\* the id columns of one row of the hydrating query: a.slot_id, a.patient_id,
\* s.id, s.practitioner_id, p.id, c.id
JoinedRows == [a_slot_id : Ids, a_patient_id : Ids, s_id : Ids,
               s_practitioner_id : Ids, p_id : Ids, c_id : Ids]

\* (*AppointmentDetail)(nil)
NoDetail == [Appointment |-> [SlotID |-> 0, PatientID |-> 0],
             Slot |-> [ID |-> 0, PractitionerID |-> 0],
             Patient |-> [ID |-> 0], Clinician |-> [ID |-> 0]]

VARIABLES
    now,            \* the clock (time.Now() of the instances, now() of Postgres)
    appointments,   \* table appointments; the row id is its index
    event_logs,     \* table event_logs, in bigserial order
    locks,          \* Redis keys lock:slot:<slotID>
    proc,           \* per service instance: position and locals of its running call
    unguarded,      \* history: rows inserted while another body ran for the same slot
    worker          \* cmd/expiry-worker: position of main's loop, its ticker and rootCtx

vars == <<now, appointments, event_logs, locks, proc, unguarded, worker>>

\* main of cmd/expiry-worker before runOnce at start-up: no ticker yet
\* (next is the time of the ticker's next tick, ticker the tick buffered in
\* ticker.C), rootCtx not cancelled; runs counts the calls of runOnce
InitWorker == [loop |-> "startup", ticking |-> FALSE, next |-> 0, ticker |-> 0,
               done |-> FALSE, runs |-> 0]

InitProc == [pc |-> "idle", op |-> "none", slotID |-> 0, patientID |-> 0,
             id |-> 0, token |-> 0, deadline |-> 0, expiresAt |-> 0,
             appt |-> NoAppt, now |-> 0, cands |-> {}, cur |-> 0, updates |-> {},
             dbErr |-> nil, err |-> nil, created |-> NoAppt, ret |-> NoAppt,
             cancelled |-> FALSE, val |-> 0, row |-> NoRows, detail |-> NoDetail,
             from |-> "none", to |-> "none"]

Init ==
    /\ now = 0
    /\ appointments = <<>>
    /\ event_logs = <<>>
    /\ locks = [s \in SlotIds |-> NoLock]
    /\ proc = [p \in Procs |-> InitProc]
    /\ unguarded = {}
    /\ worker = InitWorker

\* ======================================================= Persistence port

\* variant: the patient lookup never reports a missing row
GetPatientByID_NoCheck(id) == nil

\* SELECT ... FROM patients WHERE id = $1
GetPatientByID(id) ==
    IF id \in patients THEN nil ELSE ErrPatientNotFound

\* SELECT ... FROM appointment_slots WHERE id = $1
GetSlotByID(id) ==
    IF id \in DOMAIN slots
    THEN [status |-> slots[id], err |-> nil]
    ELSE [status |-> "none", err |-> ErrSlotNotFound]

\* SELECT ... FROM appointments WHERE id = $1
GetAppointmentByID(rows, id) ==
    IF id \in DOMAIN rows
    THEN [appt |-> rows[id], err |-> nil]
    ELSE [appt |-> NoAppt, err |-> ErrAppointmentNotFound]

ConfirmedForSlot(rows, slotID) ==
    {i \in DOMAIN rows : rows[i].slot = slotID /\ rows[i].status = StatusConfirmed}

\* variant: the recheck never finds the confirmed row
GetConfirmedAppointmentForSlot_Blind(rows, slotID) ==
    [appt |-> NoAppt, err |-> ErrAppointmentNotFound]

\* variant: the recheck also counts Pending rows (status <> 'expired')
GetConfirmedAppointmentForSlot_AnyActive(rows, slotID) ==
    IF \E i \in DOMAIN rows : rows[i].slot = slotID
                              /\ rows[i].status \in {StatusPending, StatusConfirmed}
    THEN [appt |-> rows[CHOOSE i \in DOMAIN rows :
                          rows[i].slot = slotID
                          /\ rows[i].status \in {StatusPending, StatusConfirmed}],
          err |-> nil]
    ELSE [appt |-> NoAppt, err |-> ErrAppointmentNotFound]

\* SELECT ... FROM appointments WHERE slot_id = $1 AND status = 'confirmed'
GetConfirmedAppointmentForSlot(rows, slotID) ==
    IF ConfirmedForSlot(rows, slotID) # {}
    THEN [appt |-> rows[CHOOSE i \in ConfirmedForSlot(rows, slotID) : TRUE], err |-> nil]
    ELSE [appt |-> NoAppt, err |-> ErrAppointmentNotFound]

\* variant: the table has no CHECK on expires_at
chk_expires_future_Dropped(row) == TRUE

\* CONSTRAINT chk_expires_future CHECK (expires_at IS NULL OR expires_at > created_at)
chk_expires_future(row) == row.expires_at > row.created_at

\* variant: the partial unique index is dropped
uniq_confirmed_appointment_per_slot_Dropped(rows, i, r) == TRUE

\* UNIQUE INDEX uniq_confirmed_appointment_per_slot ON appointments (slot_id)
\* WHERE status = 'confirmed': may row i take the value r?
uniq_confirmed_appointment_per_slot(rows, i, r) ==
    r.status = StatusConfirmed =>
        \A j \in DOMAIN rows : j # i => ~(rows[j].slot = r.slot /\ rows[j].status = StatusConfirmed)

\* variant: the store stamps the expiry itself, at insert time
CreatePendingAppointment_StoreStamps(rows, slotID, patientID, expiresAt, t) ==
    LET row == [id |-> Len(rows) + 1, slot |-> slotID, patient |-> patientID,
                status |-> StatusPending, created_at |-> t,
                expires_at |-> t + AppointmentTTL]
    IN  [rows |-> Append(rows, row), appt |-> row, err |-> nil]

\* INSERT INTO appointments (...) VALUES ($1, $2, $3, 'pending', now(), now(), $4) RETURNING ...
CreatePendingAppointment(rows, slotID, patientID, expiresAt, t) ==
    LET row == [id |-> Len(rows) + 1, slot |-> slotID, patient |-> patientID,
                status |-> StatusPending, created_at |-> t, expires_at |-> expiresAt]
    IN  IF ~chk_expires_future(row)
        THEN [rows |-> rows, appt |-> NoAppt, err |-> PgCheckViolation]
        ELSE IF ~uniq_confirmed_appointment_per_slot(rows, row.id, row)
        THEN [rows |-> rows, appt |-> NoAppt, err |-> PgUniqueViolation]
        ELSE [rows |-> Append(rows, row), appt |-> row, err |-> nil]

\* variant: the update does not go through the partial unique index
UpdateAppointmentStatus_NoIndex(rows, id, from, to) ==
    IF ~(id \in DOMAIN rows /\ rows[id].status = from)
    THEN [rows |-> rows, appt |-> NoAppt, err |-> ErrAppointmentNotFound]
    ELSE [rows |-> [rows EXCEPT ![id].status = to],
          appt |-> [rows[id] EXCEPT !.status = to], err |-> nil]

\* variant: the update is not conditional on the current status
UpdateAppointmentStatus_AnyStatus(rows, id, from, to) ==
    IF id \notin DOMAIN rows
    THEN [rows |-> rows, appt |-> NoAppt, err |-> ErrAppointmentNotFound]
    ELSE LET row == [rows[id] EXCEPT !.status = to]
         IN  IF ~uniq_confirmed_appointment_per_slot(rows, id, row)
             THEN [rows |-> rows, appt |-> NoAppt, err |-> PgUniqueViolation]
             ELSE [rows |-> [rows EXCEPT ![id] = row], appt |-> row, err |-> nil]

\* variant: an update that matches no row is reported as a success
UpdateAppointmentStatus_IgnoresNoRows(rows, id, from, to) ==
    IF ~(id \in DOMAIN rows /\ rows[id].status = from)
    THEN [rows |-> rows, appt |-> NoAppt, err |-> nil]
    ELSE LET row == [rows[id] EXCEPT !.status = to]
         IN  IF ~uniq_confirmed_appointment_per_slot(rows, id, row)
             THEN [rows |-> rows, appt |-> NoAppt, err |-> PgUniqueViolation]
             ELSE [rows |-> [rows EXCEPT ![id] = row], appt |-> row, err |-> nil]

\* variant: the statement returns the row as it was before the update
UpdateAppointmentStatus_ReturnsOld(rows, id, from, to) ==
    IF ~(id \in DOMAIN rows /\ rows[id].status = from)
    THEN [rows |-> rows, appt |-> NoAppt, err |-> ErrAppointmentNotFound]
    ELSE LET row == [rows[id] EXCEPT !.status = to]
         IN  IF ~uniq_confirmed_appointment_per_slot(rows, id, row)
             THEN [rows |-> rows, appt |-> NoAppt, err |-> PgUniqueViolation]
             ELSE [rows |-> [rows EXCEPT ![id] = row], appt |-> rows[id], err |-> nil]

\* UPDATE appointments SET status = $2, updated_at = now()
\* WHERE id = $1 AND status = $3 RETURNING ...
UpdateAppointmentStatus(rows, id, from, to) ==
    IF ~(id \in DOMAIN rows /\ rows[id].status = from)
    THEN [rows |-> rows, appt |-> NoAppt, err |-> ErrAppointmentNotFound]
    ELSE LET row == [rows[id] EXCEPT !.status = to]
         IN  IF ~uniq_confirmed_appointment_per_slot(rows, id, row)
             THEN [rows |-> rows, appt |-> NoAppt, err |-> PgUniqueViolation]
             ELSE [rows |-> [rows EXCEPT ![id] = row], appt |-> row, err |-> nil]

\* variant: the comparison with the clock value is reversed
FindExpiredPending_Reversed(rows, t) ==
    {i \in DOMAIN rows : rows[i].status = StatusPending /\ rows[i].expires_at > t}

\* variant: the scan returns one row at most (LIMIT 1)
FindExpiredPending_Limit1(rows, t) ==
    LET c == {i \in DOMAIN rows : rows[i].status = StatusPending /\ rows[i].expires_at < t}
    IN  IF c = {} THEN {} ELSE {CHOOSE i \in c : \A j \in c : i <= j}

\* SELECT ... WHERE status = 'pending' AND expires_at IS NOT NULL AND expires_at < $1
FindExpiredPending(rows, t) ==
    {i \in DOMAIN rows : rows[i].status = StatusPending /\ rows[i].expires_at < t}

\* INSERT INTO event_logs (event_type, appointment_id, payload, created_at)
InsertEvent(log, appointmentID, eventType, reason) ==
    Append(log, [event_type |-> eventType, appointment_id |-> appointmentID,
                 reason |-> reason])

\* ============================================================== Lock port

\* variant: SET without NX overwrites the holder's key
SetNX_Overwrite(store, key, token, ttl, t) ==
    [ok |-> TRUE, store |-> [store EXCEPT ![key] = [val |-> token, exp |-> t + ttl]]]

\* SET key token NX PX ttl
SetNX(store, key, token, ttl, t) ==
    IF store[key].val # 0
    THEN [ok |-> FALSE, store |-> store]
    ELSE [ok |-> TRUE, store |-> [store EXCEPT ![key] = [val |-> token, exp |-> t + ttl]]]

\* variant: DEL key whatever it holds
unlockScript_Unconditional(store, key, token) ==
    [store EXCEPT ![key] = NoLock]

\* if GET key == token then DEL key
unlockScript(store, key, token) ==
    IF store[key].val = token
    THEN [store EXCEPT ![key] = NoLock]
    ELSE store

\* l.release(ctx, key, token): the script runs under the caller's context; with
\* that context cancelled the client returns its error and the key is untouched
release(store, key, token, ctxDone) ==
    IF ctxDone THEN store ELSE unlockScript(store, key, token)

\* variant: the keys carry no TTL
ExpireKeys_Never(store, t) == store

\* Redis drops a key once its TTL has elapsed
ExpireKeys(store, t) ==
    [k \in DOMAIN store |-> IF store[k].val # 0 /\ store[k].exp <= t THEN NoLock ELSE store[k]]

\* a repository call made with a context whose deadline has passed fails
CtxDone(deadline, t) == t >= deadline

\* ================================================================ Gateway

handleCreateError(err) ==
    IF ErrorsIs(err, ErrPatientNotFound) THEN "patient_not_found"
    ELSE IF ErrorsIs(err, ErrSlotNotFound) THEN "slot_not_found"
    ELSE IF ErrorsIs(err, ErrSlotNotOpen) THEN "slot_not_open"
    ELSE IF ErrorsIs(err, ErrSlotAlreadyBooked) THEN "slot_already_booked"
    ELSE IF ErrorsIs(err, ErrSlotBeingBooked) \/ ErrorsIs(err, ErrLockNotAcquired)
    THEN "slot_being_booked"
    ELSE "internal_error"

handleConfirmError(err) ==
    IF ErrorsIs(err, ErrAppointmentNotFound) THEN "appointment_not_found"
    ELSE IF ErrorsIs(err, ErrAppointmentExpiredState) THEN "appointment_expired"
    ELSE IF ErrorsIs(err, ErrInvalidStatusTransition) THEN "invalid_status_transition"
    ELSE "internal_error"


\* ============================================================ Engine steps

Goto(p, label) == [proc EXCEPT ![p].pc = label]

\* the call of p returns (ret, err); of its locals only the arguments, the
\* loaded row, the inserted row, the clock value it read and the outcomes of
\* its Pending->Expired updates stay observable
Done(p, ret, err) ==
    [proc EXCEPT ![p] = [InitProc EXCEPT !.pc = "done", !.op = proc[p].op,
                                         !.slotID = proc[p].slotID,
                                         !.patientID = proc[p].patientID,
                                         !.id = proc[p].id, !.appt = proc[p].appt,
                                         !.created = proc[p].created,
                                         !.now = proc[p].now,
                                         !.updates = proc[p].updates,
                                         !.dbErr = proc[p].dbErr,
                                         !.ret = ret, !.err = err]]

\* calls that may still insert a row
InFlightCreates ==
    Cardinality({p \in Procs : proc[p].op = "create" /\ proc[p].pc # "done"
                               /\ proc[p].created = NoAppt})

\* the clock advances; Redis drops the lock keys whose TTL has elapsed
Tick ==
    /\ now < MaxTime
    /\ now' = now + 1
    /\ locks' = ExpireKeys(locks, now + 1)
    /\ UNCHANGED <<appointments, event_logs, proc, unguarded, worker>>

\* ------------------------------------------------------ CreateAppointment

\* entry, s.repo.GetPatientByID, s.repo.GetSlotByID and the slot.Status check
\* (both tables are read-only for the engine)
Create_Validate(p, slotID, patientID) ==
    /\ proc[p].pc = "idle"
    /\ Len(event_logs) < MaxEvents
    /\ Len(appointments) + InFlightCreates < MaxAppts
    /\ LET err == GetPatientByID(patientID)
           r == GetSlotByID(slotID)
           q == [proc EXCEPT ![p].op = "create", ![p].slotID = slotID,
                             ![p].patientID = patientID]
       IN  proc' = IF err # nil
                   THEN [q EXCEPT ![p].pc = "done", ![p].err = err]
                   ELSE IF r.err # nil
                   THEN [q EXCEPT ![p].pc = "done", ![p].err = Errorf("load slot", r.err)]
                   ELSE IF r.status # SlotOpen
                   THEN [q EXCEPT ![p].pc = "done", ![p].err = ErrSlotNotOpen]
                   ELSE [q EXCEPT ![p].pc = "setnx"]
    /\ UNCHANGED <<now, appointments, event_logs, locks, unguarded, worker>>

\* variant: a constraint rejection is surfaced as ErrSlotAlreadyBooked
CreateResult_ConflictAsBooked(err, created) ==
    IF err # nil
    THEN [ret |-> NoAppt,
          err |-> IF ErrorsIs(err, ErrLockNotAcquired) THEN ErrSlotBeingBooked
                  ELSE IF ErrorsIs(err, PgCheckViolation) \/ ErrorsIs(err, PgUniqueViolation)
                  THEN ErrSlotAlreadyBooked
                  ELSE err]
    ELSE [ret |-> created, err |-> nil]

\* what CreateAppointment returns once WithSlotLock has returned err
CreateResult(err, created) ==
    IF err # nil
    THEN [ret |-> NoAppt,
          err |-> IF ErrorsIs(err, ErrLockNotAcquired) THEN ErrSlotBeingBooked ELSE err]
    ELSE [ret |-> created, err |-> nil]

\* uuid.NewString(): a token that no key and no running call carries
NewString ==
    CHOOSE t \in 1..(Cardinality(Procs) + Cardinality(SlotIds)) :
        /\ \A k \in SlotIds : locks[k].val # t
        /\ \A q \in Procs : proc[q].token # t

\* WithSlotLock: token := uuid.NewString(); l.client.SetNX(ctx, key, token, l.ttl)
Create_SetNX(p) ==
    /\ proc[p].pc = "setnx"
    /\ LET token == NewString
           r == SetNX(locks, proc[p].slotID, token, LockTTL, now)
           res == CreateResult(ErrLockNotAcquired, proc[p].created)
       IN  /\ locks' = r.store
           /\ proc' = IF r.ok
                      THEN [proc EXCEPT ![p].pc = "withTimeout", ![p].token = token]
                      ELSE Done(p, res.ret, res.err)
    /\ UNCHANGED <<now, appointments, event_logs, unguarded, worker>>

\* WithSlotLock: ctxWithTimeout, cancel := context.WithTimeout(ctx, l.ttl)
Create_WithTimeout(p) ==
    /\ proc[p].pc = "withTimeout"
    /\ proc' = [proc EXCEPT ![p].pc = "check", ![p].deadline = now + LockTTL]
    /\ UNCHANGED <<now, appointments, event_logs, locks, unguarded, worker>>

\* body: s.repo.GetConfirmedAppointmentForSlot, then expiresAt := time.Now().Add(TTL)
Create_GetConfirmed(p) ==
    /\ proc[p].pc = "check"
    /\ LET r == GetConfirmedAppointmentForSlot(appointments, proc[p].slotID)
       IN  proc' =
             IF CtxDone(proc[p].deadline, now)
             THEN [proc EXCEPT ![p].pc = "release",
                               ![p].err = Errorf("check confirmed appointment", DeadlineExceeded)]
             ELSE IF r.appt # NoAppt
             THEN [proc EXCEPT ![p].pc = "release", ![p].err = ErrSlotAlreadyBooked]
             ELSE [proc EXCEPT ![p].pc = "insert", ![p].expiresAt = now + AppointmentTTL]
    /\ UNCHANGED <<now, appointments, event_logs, locks, unguarded, worker>>

\* another instance is inside the body of WithSlotLock for the same slot
OtherInBody(p) ==
    \E q \in Procs \ {p} :
        /\ proc[q].op = "create"
        /\ proc[q].pc \in {"check", "insert", "logCreated"}
        /\ proc[q].slotID = proc[p].slotID

\* body: s.repo.CreatePendingAppointment
Create_Insert(p) ==
    /\ proc[p].pc = "insert"
    /\ LET r == CreatePendingAppointment(appointments, proc[p].slotID, proc[p].patientID,
                                         proc[p].expiresAt, now)
       IN  IF CtxDone(proc[p].deadline, now)
           THEN /\ proc' = [proc EXCEPT ![p].pc = "release", ![p].dbErr = DeadlineExceeded,
                                        ![p].err = Errorf("create pending appointment", DeadlineExceeded)]
                /\ UNCHANGED <<appointments, unguarded, worker>>
           ELSE IF r.err # nil
           THEN /\ proc' = [proc EXCEPT ![p].pc = "release", ![p].dbErr = r.err,
                                        ![p].err = Errorf("create pending appointment", r.err)]
                /\ UNCHANGED <<appointments, unguarded, worker>>
           ELSE /\ proc' = [proc EXCEPT ![p].pc = "logCreated", ![p].created = r.appt]
                /\ appointments' = r.rows
                /\ unguarded' = IF OtherInBody(p) THEN unguarded \cup {r.appt.id}
                                                  ELSE unguarded
    /\ UNCHANGED <<now, event_logs, locks, worker>>

\* body: s.logEvent(lockCtx, appt.ID, EventAppointmentCreated, payload); return nil
Create_LogEvent(p) ==
    /\ proc[p].pc = "logCreated"
    /\ event_logs' = IF CtxDone(proc[p].deadline, now)
                     THEN event_logs
                     ELSE InsertEvent(event_logs, proc[p].created.id, EventAppointmentCreated, "")
    /\ proc' = Goto(p, "release")
    /\ UNCHANGED <<now, appointments, locks, unguarded, worker>>

\* WithSlotLock: deferred l.release(ctx, key, token), then CreateAppointment returns
Create_Release(p) ==
    /\ proc[p].pc = "release"
    /\ locks' = unlockScript(locks, proc[p].slotID, proc[p].token)
    /\ LET res == CreateResult(proc[p].err, proc[p].created)
       IN  proc' = Done(p, res.ret, res.err)
    /\ UNCHANGED <<now, appointments, event_logs, unguarded, worker>>

\* ----------------------------------------------------- ConfirmAppointment

\* variant: the check of StatusExpired is missing
ConfirmBranch_NoExpiredCheck(appt, t) ==
    IF appt.expires_at < t THEN "markExpired"
    ELSE IF appt.status # StatusPending THEN "invalid"
    ELSE "update"

\* variant: the check of appt.Status != StatusPending is missing
ConfirmBranch_NoPendingCheck(appt, t) ==
    IF appt.status = StatusExpired THEN "expired"
    ELSE IF appt.expires_at < t THEN "markExpired"
    ELSE "update"

\* variant: the check of ExpiresAt.Before(now) is missing
ConfirmBranch_NoExpiryCheck(appt, t) ==
    IF appt.status = StatusExpired THEN "expired"
    ELSE IF appt.status # StatusPending THEN "invalid"
    ELSE "update"

\* the checks ConfirmAppointment makes on the loaded row, in the code's order
ConfirmBranch(appt, t) ==
    IF appt.status = StatusExpired THEN "expired"
    ELSE IF appt.expires_at < t THEN "markExpired"
    ELSE IF appt.status # StatusPending THEN "invalid"
    ELSE "update"

\* entry, s.repo.GetAppointmentByID, now := time.Now() and the status checks
Confirm_Load(p, id) ==
    /\ proc[p].pc = "idle"
    /\ Len(event_logs) < MaxEvents
    /\ LET r == GetAppointmentByID(appointments, id)
           q == [proc EXCEPT ![p].op = "confirm", ![p].id = id, ![p].appt = r.appt,
                             ![p].now = now]
       IN  proc' =
             IF r.err # nil
             THEN [q EXCEPT ![p].pc = "done", ![p].err = Errorf("load appointment", r.err)]
             ELSE IF ConfirmBranch(r.appt, now) = "expired"
             THEN [q EXCEPT ![p].pc = "done", ![p].err = ErrAppointmentExpiredState]
             ELSE IF ConfirmBranch(r.appt, now) = "markExpired"
             THEN [q EXCEPT ![p].pc = "markExpired"]
             ELSE IF ConfirmBranch(r.appt, now) = "invalid"
             THEN [q EXCEPT ![p].pc = "done", ![p].err = ErrInvalidStatusTransition]
             ELSE [q EXCEPT ![p].pc = "update"]
    /\ UNCHANGED <<now, appointments, event_logs, locks, unguarded, worker>>

\* _, updErr := s.repo.UpdateAppointmentStatus(ctx, appt.ID, StatusPending, StatusExpired);
\* updErr is logged unless it is ErrAppointmentNotFound, and the call goes on
Confirm_MarkExpired(p) ==
    /\ proc[p].pc = "markExpired"
    /\ LET r == UpdateAppointmentStatus(appointments, proc[p].id,
                                        StatusPending, StatusExpired)
       IN  /\ appointments' = r.rows
           /\ proc' = [proc EXCEPT ![p].pc = "logExpired", ![p].dbErr = r.err,
                                   ![p].updates = {<<proc[p].id, r.err>>}]
    /\ UNCHANGED <<now, event_logs, locks, unguarded, worker>>

\* s.logEvent(... "confirm_after_expiry"); return nil, ErrAppointmentExpiredState
Confirm_LogExpired(p) ==
    /\ proc[p].pc = "logExpired"
    /\ event_logs' = InsertEvent(event_logs, proc[p].id, EventAppointmentExpired,
                                 "confirm_after_expiry")
    /\ proc' = Done(p, NoAppt, ErrAppointmentExpiredState)
    /\ UNCHANGED <<now, appointments, locks, unguarded, worker>>

\* variant: a successful confirm also deletes the key of the appointment's slot
Confirm_Update_DeletesKey(p) ==
    /\ proc[p].pc = "update"
    /\ LET r == UpdateAppointmentStatus(appointments, proc[p].id,
                                        StatusPending, StatusConfirmed)
       IN  /\ appointments' = r.rows
           /\ locks' = IF r.err = nil THEN [locks EXCEPT ![r.appt.slot] = NoLock] ELSE locks
           /\ proc' = IF r.err # nil
                      THEN [Done(p, NoAppt, Errorf("confirm appointment", r.err))
                               EXCEPT ![p].dbErr = r.err]
                      ELSE [proc EXCEPT ![p].pc = "logConfirmed", ![p].ret = r.appt]
    /\ UNCHANGED <<now, event_logs, unguarded, worker>>

\* s.repo.UpdateAppointmentStatus(ctx, appt.ID, StatusPending, StatusConfirmed)
Confirm_Update(p) ==
    /\ proc[p].pc = "update"
    /\ LET r == UpdateAppointmentStatus(appointments, proc[p].id,
                                        StatusPending, StatusConfirmed)
       IN  /\ appointments' = r.rows
           /\ proc' = IF r.err # nil
                      THEN [Done(p, NoAppt, Errorf("confirm appointment", r.err))
                               EXCEPT ![p].dbErr = r.err]
                      ELSE [proc EXCEPT ![p].pc = "logConfirmed", ![p].ret = r.appt]
    /\ UNCHANGED <<now, event_logs, locks, unguarded, worker>>

\* s.logEvent(ctx, updated.ID, EventAppointmentConfirmed, ...); return updated, nil
Confirm_LogEvent(p) ==
    /\ proc[p].pc = "logConfirmed"
    /\ event_logs' = InsertEvent(event_logs, proc[p].id, EventAppointmentConfirmed, "")
    /\ proc' = Done(p, proc[p].ret, nil)
    /\ UNCHANGED <<now, appointments, locks, unguarded, worker>>

\* ---------------------------------------------- ExpirePendingAppointments

\* entry: now := time.Now(); s.repo.FindExpiredPending(ctx, now)
Expire_Find(p) ==
    /\ proc[p].pc = "idle"
    /\ LET c == FindExpiredPending(appointments, now)
           q == [proc EXCEPT ![p].op = "expire", ![p].now = now]
       IN  proc' = IF c = {} THEN [q EXCEPT ![p].pc = "done"]
                   ELSE [q EXCEPT ![p].pc = "expireNext", ![p].cands = c]
    /\ UNCHANGED <<now, appointments, event_logs, locks, unguarded, worker>>

\* loop body: s.repo.UpdateAppointmentStatus(ctx, appt.ID, StatusPending, StatusExpired);
\* the scan is unordered, so the candidates are taken in any order
Expire_Update(p) ==
    /\ proc[p].pc = "expireNext"
    /\ \E i \in proc[p].cands :
         LET r == UpdateAppointmentStatus(appointments, i, StatusPending, StatusExpired)
         IN  /\ appointments' = r.rows
             /\ proc' = [proc EXCEPT ![p].pc = "logWorker", ![p].cur = i,
                                     ![p].cands = proc[p].cands \ {i},
                                     ![p].updates = proc[p].updates \cup {<<i, r.err>>}]
    /\ UNCHANGED <<now, event_logs, locks, unguarded, worker>>

\* loop body: s.logEvent(ctx, appt.ID, EventAppointmentExpired, {"reason": "worker"})
Expire_LogEvent(p) ==
    /\ proc[p].pc = "logWorker"
    /\ event_logs' = InsertEvent(event_logs, proc[p].cur, EventAppointmentExpired, "worker")
    /\ proc' = IF proc[p].cands = {} THEN Done(p, NoAppt, nil) ELSE Goto(p, "expireNext")
    /\ UNCHANGED <<now, appointments, locks, unguarded, worker>>

\* the caller has its result; the instance serves the next call
Return(p) ==
    /\ proc[p].pc = "done"
    /\ proc' = [proc EXCEPT ![p] = InitProc]
    /\ UNCHANGED <<now, appointments, event_logs, locks, unguarded, worker>>

Next ==
    \/ Tick
    \/ \E p \in Procs, s \in SlotIds, pt \in PatientIds : Create_Validate(p, s, pt)
    \/ \E p \in Procs : Create_SetNX(p)
    \/ \E p \in Procs : Create_WithTimeout(p)
    \/ \E p \in Procs : Create_GetConfirmed(p)
    \/ \E p \in Procs : Create_Insert(p)
    \/ \E p \in Procs : Create_LogEvent(p)
    \/ \E p \in Procs : Create_Release(p)
    \/ \E p \in Procs, id \in 1..MaxAppts : Confirm_Load(p, id)
    \/ \E p \in Procs : Confirm_MarkExpired(p)
    \/ \E p \in Procs : Confirm_LogExpired(p)
    \/ \E p \in Procs : Confirm_Update(p)
    \/ \E p \in Procs : Confirm_LogEvent(p)
    \/ \E p \in Procs : Len(event_logs) < MaxEvents /\ Expire_Find(p)
    \/ \E p \in Procs : Expire_Update(p)
    \/ \E p \in Procs : Expire_LogEvent(p)
    \/ \E p \in Procs : Return(p)

Spec == Init /\ [][Next]_vars

\* ------------------------------------------- the two binaries of the repo

\* cmd/api-server: serves CreateAppointment and ConfirmAppointment
ApiServer == "i1"

\* cmd/expiry-worker: runs ExpirePendingAppointments at start-up and then on
\* every tick of its ticker
ExpiryWorker == "i2"

\* runOnce(rootCtx, svc) of the worker's loop, one repository call per step
WorkerRun ==
    \/ Expire_Find(ExpiryWorker)
    \/ Expire_Update(ExpiryWorker)
    \/ Expire_LogEvent(ExpiryWorker)
    \/ Return(ExpiryWorker)

NextDeployed ==
    \/ Tick
    \/ \E s \in SlotIds, pt \in PatientIds : Create_Validate(ApiServer, s, pt)
    \/ Create_SetNX(ApiServer)
    \/ Create_WithTimeout(ApiServer)
    \/ Create_GetConfirmed(ApiServer)
    \/ Create_Insert(ApiServer)
    \/ Create_LogEvent(ApiServer)
    \/ Create_Release(ApiServer)
    \/ \E id \in 1..MaxAppts : Confirm_Load(ApiServer, id)
    \/ Confirm_MarkExpired(ApiServer)
    \/ Confirm_LogExpired(ApiServer)
    \/ Confirm_Update(ApiServer)
    \/ Confirm_LogEvent(ApiServer)
    \/ Return(ApiServer)
    \/ WorkerRun

\* the worker's process is never stopped: its loop keeps taking its next step
SpecWorker == Init /\ [][NextDeployed]_vars /\ WF_vars(WorkerRun)

\* ------------------------------------------- confirms beside the API server

\* a second instance of the API server behind the same stores; it shares the
\* process slot of the expiry worker, so that slot carries either a confirm
\* request served by the second instance or a run of the worker
SecondApiServer == "i2"

NextBeside ==
    \/ NextDeployed
    \/ \E id \in 1..MaxAppts : Confirm_Load(SecondApiServer, id)
    \/ Confirm_MarkExpired(SecondApiServer)
    \/ Confirm_LogExpired(SecondApiServer)
    \/ Confirm_Update(SecondApiServer)
    \/ Confirm_LogEvent(SecondApiServer)

SpecBeside == Init /\ [][NextBeside]_vars

\* ---------------------------------------------- store failures of the worker

\* variant: the first failing candidate aborts the run with its error
Expire_UpdateFails_Abort(p) ==
    /\ proc[p].pc = "expireNext"
    /\ \E i \in proc[p].cands :
         proc' = [Done(p, NoAppt, Errorf("expire appointment", StoreUnavailable))
                     EXCEPT ![p].dbErr = StoreUnavailable]
    /\ UNCHANGED <<now, appointments, event_logs, locks, unguarded, worker>>

\* loop body: UpdateAppointmentStatus fails with an error that is not
\* ErrAppointmentNotFound: log.Printf(...); continue
Expire_UpdateFails(p) ==
    /\ proc[p].pc = "expireNext"
    /\ \E i \in proc[p].cands :
         LET q == [proc EXCEPT ![p].cands = proc[p].cands \ {i},
                               ![p].updates = proc[p].updates \cup {<<i, StoreUnavailable>>}]
         IN  proc' = IF q[p].cands = {}
                     THEN [q EXCEPT ![p] = [Done(p, NoAppt, nil)[p]
                                               EXCEPT !.updates = q[p].updates]]
                     ELSE q
    /\ UNCHANGED <<now, appointments, event_logs, locks, unguarded, worker>>

\* entry: s.repo.FindExpiredPending fails:
\* return fmt.Errorf("find expired pending appointments: %w", err)
Expire_FindFails(p) ==
    /\ proc[p].pc = "idle"
    /\ proc' = [proc EXCEPT ![p].op = "expire", ![p].now = now, ![p].pc = "done",
                            ![p].dbErr = StoreUnavailable,
                            ![p].err = Errorf("find expired pending appointments",
                                              StoreUnavailable)]
    /\ UNCHANGED <<now, appointments, event_logs, locks, unguarded, worker>>

NextFaulty ==
    \/ NextDeployed
    \/ Expire_FindFails(ExpiryWorker)
    \/ Expire_UpdateFails(ExpiryWorker)

SpecFaulty == Init /\ [][NextFaulty]_vars

\* ------------------------------------------------ store failures of logEvent
\* logEvent: s.repo.InsertEvent fails; log.Printf("failed to insert event log ...")
\* and logEvent returns nothing, so its caller goes on as after a stored event

\* variant: the failure of the event insert is returned by the body
Create_LogEventFails_Propagates(p) ==
    /\ proc[p].pc = "logCreated"
    /\ proc' = [proc EXCEPT ![p].pc = "release",
                            ![p].err = Errorf("log event", StoreUnavailable)]
    /\ UNCHANGED <<now, appointments, event_logs, locks, unguarded, worker>>

\* body: s.logEvent(lockCtx, appt.ID, EventAppointmentCreated, payload); return nil
Create_LogEventFails(p) ==
    /\ proc[p].pc = "logCreated"
    /\ proc' = Goto(p, "release")
    /\ UNCHANGED <<now, appointments, event_logs, locks, unguarded, worker>>

\* s.logEvent(... "confirm_after_expiry"); return nil, ErrAppointmentExpiredState
Confirm_LogExpiredFails(p) ==
    /\ proc[p].pc = "logExpired"
    /\ proc' = Done(p, NoAppt, ErrAppointmentExpiredState)
    /\ UNCHANGED <<now, appointments, event_logs, locks, unguarded, worker>>

\* variant: the failed event append is returned to the caller of confirm
Confirm_LogEventFails_Propagates(p) ==
    /\ proc[p].pc = "logConfirmed"
    /\ proc' = Done(p, NoAppt, Errorf("insert event", StoreUnavailable))
    /\ UNCHANGED <<now, appointments, event_logs, locks, unguarded, worker>>

\* s.logEvent(ctx, updated.ID, EventAppointmentConfirmed, ...); return updated, nil
Confirm_LogEventFails(p) ==
    /\ proc[p].pc = "logConfirmed"
    /\ proc' = Done(p, proc[p].ret, nil)
    /\ UNCHANGED <<now, appointments, event_logs, locks, unguarded, worker>>

\* loop body: s.logEvent(ctx, appt.ID, EventAppointmentExpired, {"reason": "worker"})
Expire_LogEventFails(p) ==
    /\ proc[p].pc = "logWorker"
    /\ proc' = IF proc[p].cands = {} THEN Done(p, NoAppt, nil) ELSE Goto(p, "expireNext")
    /\ UNCHANGED <<now, appointments, event_logs, locks, unguarded, worker>>

\* the operations of one Service called one after another, each logEvent call
\* storing its event or failing to
NextLossy ==
    \/ Tick
    \/ \E s \in SlotIds, pt \in PatientIds : Create_Validate(ApiServer, s, pt)
    \/ Create_SetNX(ApiServer)
    \/ Create_WithTimeout(ApiServer)
    \/ Create_GetConfirmed(ApiServer)
    \/ Create_Insert(ApiServer)
    \/ Create_LogEvent(ApiServer)
    \/ Create_LogEventFails(ApiServer)
    \/ Create_Release(ApiServer)
    \/ \E id \in 1..MaxAppts : Confirm_Load(ApiServer, id)
    \/ Confirm_MarkExpired(ApiServer)
    \/ Confirm_LogExpired(ApiServer)
    \/ Confirm_LogExpiredFails(ApiServer)
    \/ Confirm_Update(ApiServer)
    \/ Confirm_LogEvent(ApiServer)
    \/ Confirm_LogEventFails(ApiServer)
    \/ Expire_Find(ApiServer)
    \/ Expire_Update(ApiServer)
    \/ Expire_LogEvent(ApiServer)
    \/ Expire_LogEventFails(ApiServer)
    \/ Return(ApiServer)

SpecLossy == Init /\ [][NextLossy]_vars

\* ------------------------------------------------------- the hydrated read

\* variant: the clinician of the slot is not compared
scanAppointmentDetail_NoClinicianCheck(row) ==
    IF row = NoRows
    THEN [detail |-> NoDetail, err |-> ErrAppointmentNotFound]
    ELSE IF row.a_slot_id # row.s_id \/ row.a_patient_id # row.p_id
    THEN [detail |-> NoDetail, err |-> IntegrityViolation]
    ELSE [detail |-> [Appointment |-> [SlotID |-> row.a_slot_id,
                                       PatientID |-> row.a_patient_id],
                      Slot |-> [ID |-> row.s_id,
                                PractitionerID |-> row.s_practitioner_id],
                      Patient |-> [ID |-> row.p_id],
                      Clinician |-> [ID |-> row.c_id]],
          err |-> nil]

\* scanAppointmentDetail: row.Scan(...); pgx.ErrNoRows -> ErrAppointmentNotFound;
\* if a.SlotID != slot.ID || a.PatientID != patient.ID ||
\*    slot.PractitionerID != clinician.ID { return nil, fmt.Errorf("data integrity error ...") }
scanAppointmentDetail(row) ==
    IF row = NoRows
    THEN [detail |-> NoDetail, err |-> ErrAppointmentNotFound]
    ELSE IF \/ row.a_slot_id # row.s_id
            \/ row.a_patient_id # row.p_id
            \/ row.s_practitioner_id # row.c_id
    THEN [detail |-> NoDetail, err |-> IntegrityViolation]
    ELSE [detail |-> [Appointment |-> [SlotID |-> row.a_slot_id,
                                       PatientID |-> row.a_patient_id],
                      Slot |-> [ID |-> row.s_id,
                                PractitionerID |-> row.s_practitioner_id],
                      Patient |-> [ID |-> row.p_id],
                      Clinician |-> [ID |-> row.c_id]],
          err |-> nil]

\* Service.GetAppointment: detail, err := s.repo.GetAppointmentDetail(ctx, id);
\* if err != nil { return nil, fmt.Errorf("get appointment: %w", err) }
GetAppointment(p) ==
    /\ proc[p].pc = "idle"
    /\ LET r == scanAppointmentDetail(proc[p].row)
       IN  proc' = [proc EXCEPT ![p].pc = "done", ![p].op = "get",
                                ![p].detail = r.detail,
                                ![p].err = IF r.err # nil
                                           THEN Errorf("get appointment", r.err)
                                           ELSE nil]
    /\ UNCHANGED <<now, appointments, event_logs, locks, unguarded, worker>>

\* the row handed to scanAppointmentDetail is any row of id columns, or none
InitRead ==
    /\ now = 0
    /\ appointments = <<>>
    /\ event_logs = <<>>
    /\ locks = [s \in SlotIds |-> NoLock]
    /\ unguarded = {}
    /\ worker = InitWorker
    /\ \E row \in JoinedRows \cup {NoRows} :
          proc = [p \in Procs |-> IF p = ApiServer
                                  THEN [InitProc EXCEPT !.row = row]
                                  ELSE InitProc]

NextRead ==
    \/ GetAppointment(ApiServer)
    \/ Return(ApiServer)

SpecRead == InitRead /\ [][NextRead]_vars

\* ------------------------------------------------ the lock port on its own
\* WithSlotLock called for any slot of the table with any function fn; the caller's
\* context may be cancelled (the client of r.Context() goes away) and the
\* calling process may be killed while the call runs.

\* the call on p has acquired its key and has not yet released it
InLock(p) == proc[p].op = "lock" /\ proc[p].pc \in {"lockTimeout", "lockBody", "lockRelease"}

\* WithSlotLock: token := uuid.NewString(); l.client.SetNX(ctx, key, token, l.ttl);
\* if !ok { return ErrLockNotAcquired }
Lock_SetNX(p, slotID) ==
    /\ proc[p].pc = "idle"
    /\ LET token == NewString
           r == SetNX(locks, slotID, token, LockTTL, now)
           q == [proc EXCEPT ![p].op = "lock", ![p].slotID = slotID]
       IN  /\ locks' = r.store
           /\ proc' = IF r.ok
                      THEN [q EXCEPT ![p].pc = "lockTimeout", ![p].token = token]
                      ELSE [q EXCEPT ![p].pc = "done", ![p].err = ErrLockNotAcquired]
    /\ UNCHANGED <<now, appointments, event_logs, unguarded, worker>>

\* WithSlotLock: ctxWithTimeout, cancel := context.WithTimeout(ctx, l.ttl)
Lock_WithTimeout(p) ==
    /\ proc[p].op = "lock"
    /\ proc[p].pc = "lockTimeout"
    /\ proc' = [proc EXCEPT ![p].pc = "lockBody", ![p].deadline = now + LockTTL]
    /\ UNCHANGED <<now, appointments, event_logs, locks, unguarded, worker>>

\* WithSlotLock: return fn(ctxWithTimeout); fn gives up with the context's
\* error once ctxWithTimeout is done, and otherwise returns nil or an error
Lock_Body(p) ==
    /\ proc[p].op = "lock"
    /\ proc[p].pc = "lockBody"
    /\ \E e \in {nil, BodyFailed} :
         proc' = [proc EXCEPT ![p].pc = "lockRelease",
                              ![p].err = IF proc[p].cancelled THEN Canceled
                                         ELSE IF CtxDone(proc[p].deadline, now)
                                         THEN DeadlineExceeded
                                         ELSE e]
    /\ UNCHANGED <<now, appointments, event_logs, locks, unguarded, worker>>

\* WithSlotLock: deferred _ = l.release(ctx, key, token); the call returns.
\* val is what the script's GET read (local val), 0 for an absent key.
Lock_Release(p) ==
    /\ proc[p].op = "lock"
    /\ proc[p].pc = "lockRelease"
    /\ locks' = release(locks, proc[p].slotID, proc[p].token, proc[p].cancelled)
    /\ proc' = [proc EXCEPT ![p].pc = "done", ![p].deadline = 0,
                             ![p].val = IF proc[p].cancelled THEN 0
                                        ELSE locks[proc[p].slotID].val]
    /\ UNCHANGED <<now, appointments, event_logs, unguarded, worker>>

\* the caller's context is cancelled while the call runs
Lock_Cancel(p) ==
    /\ InLock(p)
    /\ ~proc[p].cancelled
    /\ proc' = [proc EXCEPT ![p].cancelled = TRUE]
    /\ UNCHANGED <<now, appointments, event_logs, locks, unguarded, worker>>

\* the calling process is killed while it holds the lock: nothing is released
Lock_Crash(p) ==
    /\ InLock(p)
    /\ proc' = [proc EXCEPT ![p] = InitProc]
    /\ UNCHANGED <<now, appointments, event_logs, locks, unguarded, worker>>

NextLock ==
    \/ Tick
    \/ \E p \in Procs, s \in DOMAIN slots : Lock_SetNX(p, s)
    \/ \E p \in Procs : Lock_WithTimeout(p)
    \/ \E p \in Procs : Lock_Body(p)
    \/ \E p \in Procs : Lock_Release(p)
    \/ \E p \in Procs : Lock_Cancel(p)
    \/ \E p \in Procs : Lock_Crash(p)
    \/ \E p \in Procs : Return(p)

SpecLock == Init /\ [][NextLock]_vars

\* ------------------------------------------ the conditional update on its own

Statuses == {StatusPending, StatusConfirmed, StatusCancelled, StatusExpired}

\* the rows the engine can have stored by time t: inserted Pending on an open
\* slot for a known patient with expires_at = created_at + AppointmentTTL, then
\* confirmed, or expired after expires_at (no code path stores Cancelled)
StoredRows(t) ==
    {r \in [id : 1..MaxAppts, slot : {x \in DOMAIN slots : slots[x] = SlotOpen},
            patient : patients, status : Statuses \ {StatusCancelled}, created_at : 0..t,
            expires_at : 0..(t + AppointmentTTL)] :
        /\ r.expires_at = r.created_at + AppointmentTTL
        /\ r.status = StatusExpired => r.expires_at < t}

\* the tables the engine can have stored by time t
StoredTables(t) ==
    {tbl \in UNION {[1..n -> StoredRows(t)] : n \in 0..MaxAppts} :
        /\ \A i \in DOMAIN tbl : tbl[i].id = i
        /\ \A i \in DOMAIN tbl, j \in DOMAIN tbl : i <= j => tbl[i].created_at <= tbl[j].created_at
        /\ \A i \in DOMAIN tbl :
             tbl[i].status = StatusConfirmed => uniq_confirmed_appointment_per_slot(tbl, i, tbl[i])}

InitUpdate ==
    /\ now \in 0..MaxTime
    /\ appointments \in StoredTables(now)
    /\ event_logs = <<>>
    /\ locks = [s \in SlotIds |-> NoLock]
    /\ proc = [p \in Procs |-> InitProc]
    /\ unguarded = {}
    /\ worker = InitWorker

\* PgRepository.UpdateAppointmentStatus(ctx, id, from, to) called on its own
Repo_UpdateAppointmentStatus(p, id, from, to) ==
    /\ proc[p].pc = "idle"
    /\ LET r == UpdateAppointmentStatus(appointments, id, from, to)
       IN  /\ appointments' = r.rows
           /\ proc' = [proc EXCEPT ![p].pc = "done", ![p].op = "update", ![p].id = id,
                                   ![p].from = from, ![p].to = to,
                                   ![p].ret = r.appt, ![p].dbErr = r.err]
    /\ UNCHANGED <<now, event_logs, locks, unguarded, worker>>

NextUpdate ==
    \E id \in 1..MaxAppts, from \in Statuses, to \in Statuses :
        Repo_UpdateAppointmentStatus(ApiServer, id, from, to)

SpecUpdate == InitUpdate /\ [][NextUpdate]_vars

\* ------------------------------------------- the loop of the expiry worker

\* cfg.WorkerInterval and the timeout of runOnce, in clock units
WorkerInterval == 1

RunTimeout == 1

\* the clock advances; a created ticker whose interval has elapsed puts a tick
\* in ticker.C, which holds one tick (a tick that finds it full is dropped)
Loop_Clock ==
    /\ now < MaxTime
    /\ now' = now + 1
    /\ locks' = ExpireKeys(locks, now + 1)
    /\ worker' = IF worker.ticking /\ now + 1 >= worker.next
                 THEN [worker EXCEPT !.ticker = 1, !.next = worker.next + WorkerInterval]
                 ELSE worker
    /\ UNCHANGED <<appointments, event_logs, proc, unguarded>>

\* SIGINT or SIGTERM arrives: signal.NotifyContext cancels rootCtx
Loop_Signal ==
    /\ ~worker.done
    /\ worker.loop # "exited"
    /\ worker' = [worker EXCEPT !.done = TRUE]
    /\ UNCHANGED <<now, appointments, event_logs, locks, proc, unguarded>>

\* runOnce(rootCtx, svc) at start-up: runCtx := context.WithTimeout(ctx, 20s)
Loop_Startup ==
    /\ worker.loop = "startup"
    /\ worker' = [worker EXCEPT !.loop = "running", !.runs = worker.runs + 1]
    /\ proc' = [proc EXCEPT ![ExpiryWorker].deadline = now + RunTimeout]
    /\ UNCHANGED <<now, appointments, event_logs, locks, unguarded>>

\* variant: the tick received by the select stays in ticker.C
Loop_Tick_KeepsTick ==
    /\ worker.loop = "select"
    /\ worker.ticker = 1
    /\ worker' = [worker EXCEPT !.loop = "running", !.runs = worker.runs + 1]
    /\ proc' = [proc EXCEPT ![ExpiryWorker].deadline = now + RunTimeout]
    /\ UNCHANGED <<now, appointments, event_logs, locks, unguarded>>

\* case <-ticker.C: runOnce(rootCtx, svc)
Loop_Tick ==
    /\ worker.loop = "select"
    /\ worker.ticker = 1
    /\ worker' = [worker EXCEPT !.loop = "running", !.ticker = 0,
                                !.runs = worker.runs + 1]
    /\ proc' = [proc EXCEPT ![ExpiryWorker].deadline = now + RunTimeout]
    /\ UNCHANGED <<now, appointments, event_logs, locks, unguarded>>

\* runCtx is done: rootCtx was cancelled or the timeout of the run has elapsed
RunCtxDone == worker.done \/ CtxDone(proc[ExpiryWorker].deadline, now)

\* svc.ExpirePendingAppointments(runCtx), one repository call per step; the
\* calls made after runCtx is done fail
Loop_Run ==
    /\ worker.loop = "running"
    /\ IF RunCtxDone
       THEN \/ Expire_FindFails(ExpiryWorker)
            \/ Expire_UpdateFails(ExpiryWorker)
            \/ Expire_LogEventFails(ExpiryWorker)
       ELSE \/ Expire_Find(ExpiryWorker)
            \/ Expire_Update(ExpiryWorker)
            \/ Expire_LogEvent(ExpiryWorker)

\* runOnce returns (defer cancel()); after the run at start-up the ticker is
\* created; main is at the select of its loop
Loop_RunReturns ==
    /\ worker.loop = "running"
    /\ proc[ExpiryWorker].pc = "done"
    /\ proc' = [proc EXCEPT ![ExpiryWorker] = InitProc]
    /\ worker' = IF worker.ticking
                 THEN [worker EXCEPT !.loop = "select"]
                 ELSE [worker EXCEPT !.loop = "select", !.ticking = TRUE,
                                     !.next = now + WorkerInterval]
    /\ UNCHANGED <<now, appointments, event_logs, locks, unguarded>>

\* case <-rootCtx.Done(): return, and the deferred ticker.Stop()
Loop_Exit ==
    /\ worker.loop = "select"
    /\ worker.done
    /\ worker' = [worker EXCEPT !.loop = "exited", !.ticking = FALSE]
    /\ UNCHANGED <<now, appointments, event_logs, locks, proc, unguarded>>

\* the steps of the worker's main
WorkerLoop ==
    \/ Loop_Startup
    \/ Loop_Run
    \/ Loop_RunReturns
    \/ Loop_Tick
    \/ Loop_Exit

\* the worker's loop beside an API server that creates appointments
NextLoop ==
    \/ Loop_Clock
    \/ Loop_Signal
    \/ WorkerLoop
    \/ \E s \in SlotIds, pt \in PatientIds : Create_Validate(ApiServer, s, pt)
    \/ Create_SetNX(ApiServer)
    \/ Create_WithTimeout(ApiServer)
    \/ Create_GetConfirmed(ApiServer)
    \/ Create_Insert(ApiServer)
    \/ Create_LogEvent(ApiServer)
    \/ Create_Release(ApiServer)
    \/ Return(ApiServer)

\* the worker's process runs until it returns from main
SpecLoop == Init /\ [][NextLoop]_vars /\ WF_vars(WorkerLoop)

\* ============================================================ Properties

ConfirmedCount(s) == Cardinality(ConfirmedForSlot(appointments, s))

\* p has returned from a call of the given operation
Returned(p, op) == proc[p].pc = "done" /\ proc[p].op = op

\* the step taken is a step of the call running on p
StepOf(p) == proc'[p] # proc[p]

ConstraintErrors == {PgCheckViolation, PgUniqueViolation}

\* the call on p has made a conditional Pending->Expired update of row i
Tried(p, i) == \E u \in proc[p].updates : u[1] = i

\* the Pending->Expired update of row i made by the call on p changed the row
Won(p, i) == <<i, nil>> \in proc[p].updates

\* C1: in every reachable state each slot has at most one appointment whose
\* status is Confirmed.
C1_AtMostOneConfirmedPerSlot ==
    \A i \in DOMAIN appointments :
        appointments[i].status = StatusConfirmed
        => ConfirmedCount(appointments[i].slot) <= 1

\* C1 witness: a slot holds its one Confirmed appointment and a confirm of a
\* second appointment of that slot has been turned down by the index.
C1_Witness ==
    \E p \in Procs :
        /\ Returned(p, "confirm")
        /\ proc[p].dbErr = PgUniqueViolation
        /\ ConfirmedCount(proc[p].appt.slot) = 1

\* C2: the invariant does not rest on the lock: of two appointments of one slot,
\* at least one of them inserted while another create was running its critical
\* section for that slot, at most one is Confirmed.
C2_ConfirmedUniqueWithoutExclusion ==
    \A i \in unguarded : \A j \in DOMAIN appointments :
        (/\ i # j
         /\ appointments[i].slot = appointments[j].slot)
        => ~(appointments[i].status = StatusConfirmed
             /\ appointments[j].status = StatusConfirmed)

\* C2 witness: the lock has failed to exclude (a row was inserted while another
\* body ran for the slot), one of the slot's appointments is Confirmed and the
\* confirm of the other was rejected.
C2_Witness ==
    \E i \in unguarded : \E j \in DOMAIN appointments : \E p \in Procs :
        /\ i # j
        /\ appointments[i].slot = appointments[j].slot
        /\ StatusConfirmed \in {appointments[i].status, appointments[j].status}
        /\ Returned(p, "confirm")
        /\ proc[p].id \in {i, j}
        /\ proc[p].dbErr = PgUniqueViolation

\* C3: every status change of an appointment is Pending->Confirmed,
\* Pending->Expired or Pending->Cancelled; a Confirmed, Expired or Cancelled
\* appointment never changes status again, and no row disappears.
C3_Transition ==
    /\ DOMAIN appointments \subseteq DOMAIN appointments'
    /\ \A i \in DOMAIN appointments :
         appointments'[i].status # appointments[i].status
         => /\ appointments[i].status = StatusPending
            /\ appointments'[i].status \in {StatusConfirmed, StatusExpired, StatusCancelled}

\* C3: every step of every behaviour changes appointment statuses only along
\* Pending->Confirmed, Pending->Expired or Pending->Cancelled.
C3_MonotonicLifecycle == [][C3_Transition]_vars

\* C3 witness: confirm was called on a Confirmed appointment past its expiry
\* instant, ran its Pending->Expired update, and the appointment is still Confirmed.
C3_Witness ==
    \E p \in Procs :
        /\ Returned(p, "confirm")
        /\ proc[p].appt.status = StatusConfirmed
        /\ proc[p].err = ErrAppointmentExpiredState
        /\ appointments[proc[p].id].status = StatusConfirmed

\* the confirm call that has returned on p had loaded its appointment as Pending
\* and not yet past its expiry instant, so it went on to the conditional update
ConfirmedFromPending(p) ==
    /\ Returned(p, "confirm")
    /\ proc[p].appt.status = StatusPending
    /\ proc[p].err # ErrAppointmentExpiredState

\* C4: when distinct Pending, unexpired appointments of one slot are confirmed
\* concurrently, exactly one call returns success and every other call returns
\* SlotAlreadyBooked or InvalidStatusTransition.
C4_ExactlyOneWinner ==
    \A p \in Procs : \A q \in Procs \ {p} :
        (/\ ConfirmedFromPending(p)
         /\ ConfirmedFromPending(q)
         /\ proc[p].id # proc[q].id
         /\ proc[p].appt.slot = proc[q].appt.slot
         /\ StatusExpired \notin {appointments[proc[p].id].status,
                                  appointments[proc[q].id].status})
        => /\ (proc[p].err = nil) # (proc[q].err = nil)
           /\ \A r \in {p, q} :
                proc[r].err # nil
                => \/ ErrorsIs(proc[r].err, ErrSlotAlreadyBooked)
                   \/ handleConfirmError(proc[r].err) = "invalid_status_transition"

\* C5: a confirm that loaded its appointment as Pending and whose conditional
\* Pending->Confirmed update matched no row returns AppointmentExpired (row now
\* Expired) or InvalidStatusTransition (row now Confirmed), never not-found.
C5_ReloadAfterLostUpdate ==
    \A p \in Procs :
        (/\ Returned(p, "confirm")
         /\ proc[p].appt.status = StatusPending
         /\ proc[p].dbErr = ErrAppointmentNotFound)
        => /\ handleConfirmError(proc[p].err) # "appointment_not_found"
           /\ appointments[proc[p].id].status = StatusExpired
              => handleConfirmError(proc[p].err) = "appointment_expired"
           /\ appointments[proc[p].id].status = StatusConfirmed
              => handleConfirmError(proc[p].err) = "invalid_status_transition"

\* the row a create running on p inserts in this step
InsertedRow(p) ==
    [id |-> Len(appointments) + 1, slot |-> proc[p].slotID, patient |-> proc[p].patientID,
     status |-> StatusPending, created_at |-> now, expires_at |-> proc[p].expiresAt]

\* C6: a successful CreateAppointment(slot, patient) inserts exactly one new
\* appointment, with that slot and patient, status Pending and expires_at equal
\* to the engine's current time plus AppointmentTTL, and returns that row.
C6_CreateStep ==
    \A p \in Procs :
        (proc'[p].op = "create" /\ StepOf(p)) =>
            \* the engine stamps the expiry from its own clock
            /\ (proc[p].pc = "check" /\ proc'[p].pc = "insert")
               => proc'[p].expiresAt = now + AppointmentTTL
            \* the insert appends the one row and hands it back
            /\ (proc[p].pc = "insert" /\ proc'[p].pc = "logCreated")
               => /\ appointments' = Append(appointments, InsertedRow(p))
                  /\ proc'[p].created = InsertedRow(p)
            \* no other step of the call touches the table
            /\ ~(proc[p].pc = "insert" /\ proc'[p].pc = "logCreated")
               => appointments' = appointments
            \* success is returned only after the insert, with the inserted row
            /\ (proc'[p].pc = "done" /\ proc'[p].err = nil)
               => /\ proc[p].pc = "release"
                  /\ proc[p].created # NoAppt
                  /\ proc'[p].ret = proc[p].created

\* C6: every step of a CreateAppointment call keeps to the above: one Pending
\* row inserted, stamped now + AppointmentTTL by the engine, and returned.
C6_CreateInsertsOnePending == [][C6_CreateStep]_vars

\* C6 witness: a create has returned success with a Pending row for its slot
\* and patient, and that row is the second row of the table.
C6_Witness ==
    \E p \in Procs :
        /\ Returned(p, "create")
        /\ proc[p].err = nil
        /\ proc[p].ret.status = StatusPending
        /\ proc[p].ret.slot = proc[p].slotID
        /\ proc[p].ret.patient = proc[p].patientID
        /\ proc[p].ret.id = 2
        /\ Len(appointments) = 2
        /\ appointments[2] = proc[p].ret

\* C7: if a Confirmed appointment exists for the slot when the check inside the
\* slot lock is answered, the call returns SlotAlreadyBooked, inserts no
\* appointment and appends no event.
C7_CreateStep ==
    \A p \in Procs :
        (proc[p].op = "create" /\ StepOf(p)) =>
            /\ (/\ proc[p].pc = "check"
                /\ ~CtxDone(proc[p].deadline, now)
                /\ ConfirmedForSlot(appointments, proc[p].slotID) # {})
               => /\ proc'[p].pc = "release"
                  /\ proc'[p].err = ErrSlotAlreadyBooked
                  /\ UNCHANGED <<appointments, event_logs>>
            /\ (proc[p].pc = "release" /\ proc[p].err = ErrSlotAlreadyBooked)
               => /\ proc'[p].pc = "done"
                  /\ handleCreateError(proc'[p].err) = "slot_already_booked"
                  /\ proc'[p].ret = NoAppt
                  /\ proc'[p].created = NoAppt
                  /\ UNCHANGED <<appointments, event_logs>>

\* C7: every create whose check finds a Confirmed appointment for the slot
\* returns SlotAlreadyBooked without inserting a row or appending an event.
C7_BookedSlotRejected == [][C7_CreateStep]_vars

\* C7 witness: a create has returned SlotAlreadyBooked for a slot that has a
\* Confirmed appointment.
C7_Witness ==
    \E p \in Procs :
        /\ Returned(p, "create")
        /\ proc[p].err = ErrSlotAlreadyBooked
        /\ ConfirmedCount(proc[p].slotID) = 1

\* C8: lock acquisition never waits: when the key is held, the acquiring call
\* returns SlotBeingBooked in that very step, without running the body,
\* inserting a row, appending an event or touching the holder's key.
C8_CreateStep ==
    \A p \in Procs :
        (proc[p].pc = "setnx" /\ StepOf(p) /\ locks[proc[p].slotID].val # 0)
        => /\ proc'[p].pc = "done"
           /\ proc'[p].err = ErrSlotBeingBooked
           /\ proc'[p].ret = NoAppt
           /\ proc'[p].created = NoAppt
           /\ UNCHANGED <<appointments, event_logs, locks>>

\* C8: every acquisition attempt on a held key returns SlotBeingBooked at once
\* and changes nothing.
C8_AcquireNeverWaits == [][C8_CreateStep]_vars

\* C8 witness: a create was turned away with SlotBeingBooked while the holder
\* is inside its body and its token is still the value of the key.
C8_Witness ==
    \E p \in Procs : \E q \in Procs \ {p} :
        /\ Returned(p, "create")
        /\ proc[p].err = ErrSlotBeingBooked
        /\ proc[q].pc \in {"check", "insert", "logCreated"}
        /\ proc[q].slotID = proc[p].slotID
        /\ locks[proc[q].slotID].val = proc[q].token

\* C9: an absent patient gives PatientNotFound, an absent slot SlotNotFound and a
\* slot that is not Open SlotNotOpen, checked in that order; the call returns
\* in that step and the lock store, the appointment table and the event log are
\* unchanged.
C9_CreateStep ==
    \A p \in Procs :
        (proc[p].pc = "idle" /\ proc'[p].op = "create") =>
            LET pt == proc'[p].patientID
                sl == proc'[p].slotID
                rejected == pt \notin patients \/ sl \notin DOMAIN slots \/ slots[sl] # SlotOpen
            IN  /\ pt \notin patients
                   => handleCreateError(proc'[p].err) = "patient_not_found"
                /\ (pt \in patients /\ sl \notin DOMAIN slots)
                   => handleCreateError(proc'[p].err) = "slot_not_found"
                /\ (pt \in patients /\ sl \in DOMAIN slots /\ slots[sl] # SlotOpen)
                   => proc'[p].err = ErrSlotNotOpen
                /\ rejected
                   => /\ proc'[p].pc = "done"
                      /\ proc'[p].token = 0
                      /\ proc'[p].ret = NoAppt
                      /\ UNCHANGED <<appointments, event_logs, locks>>
                /\ ~rejected => proc'[p].pc = "setnx"

\* C9: every create with an absent patient, an absent slot or a slot that is
\* not Open is rejected, in that order, before the lock is touched.
C9_RejectedBeforeLock == [][C9_CreateStep]_vars

\* C9 witness: one create was rejected with PatientNotFound although its slot is
\* absent too, another with SlotNotOpen.
C9_Witness ==
    \E p \in Procs : \E q \in Procs \ {p} :
        /\ Returned(p, "create")
        /\ proc[p].err = ErrPatientNotFound
        /\ proc[p].slotID \notin DOMAIN slots
        /\ Returned(q, "create")
        /\ proc[q].err = ErrSlotNotOpen

C11_CreateStep(p) ==
    /\ (proc[p].pc = "setnx" /\ locks[proc[p].slotID].val = 0)
       => proc'[p].pc = "withTimeout"
    /\ (/\ proc[p].pc = "check"
        /\ ~CtxDone(proc[p].deadline, now)
        /\ ConfirmedCount(proc[p].slotID) = 0)
       => proc'[p].pc = "insert"
    /\ (/\ proc[p].pc = "insert"
        /\ ~CtxDone(proc[p].deadline, now)
        /\ proc[p].expiresAt > now)
       => /\ proc'[p].pc = "logCreated"
          /\ appointments' = Append(appointments, InsertedRow(p))
          /\ proc'[p].created = InsertedRow(p)
    /\ (proc[p].pc = "release" /\ proc[p].created # NoAppt)
       => /\ proc'[p].err = nil
          /\ proc'[p].ret = proc[p].created

\* C11: Pending and Expired appointments never block a new hold: a
\* CreateAppointment that has passed validation (existing patient, Open slot)
\* acquires the lock whenever the key is free, passes the recheck whenever the
\* slot has no Confirmed appointment, inserts its Pending row and returns it,
\* whatever Pending or Expired rows the slot already has (every call being
\* answered within the lock context's deadline and before the hold's expiry).
C11_PendingAndExpiredNeverBlock ==
    [][\A p \in Procs : (proc[p].op = "create" /\ StepOf(p)) => C11_CreateStep(p)]_vars

\* C11 witness: a create has returned a second Pending appointment for a slot
\* whose first appointment is still Pending.
C11_Witness ==
    \E p \in Procs :
        /\ Returned(p, "create")
        /\ proc[p].err = nil
        /\ proc[p].ret.id = 2
        /\ Len(appointments) >= 2
        /\ appointments[2].status = StatusPending
        /\ appointments[1].status = StatusPending
        /\ appointments[1].slot = appointments[2].slot

\* ------------------------------------------------------------------ C12

\* the step taken is the first step (the load) of a confirm call on p
ConfirmLoadStep(p) == proc[p].pc = "idle" /\ proc'[p].op = "confirm"

C12_ConfirmStep(p) ==
    /\ (/\ ConfirmLoadStep(p)
        /\ proc'[p].id \in DOMAIN appointments
        /\ appointments[proc'[p].id].status = StatusPending
        /\ appointments[proc'[p].id].expires_at >= now)
       => /\ proc'[p].pc = "update"
          /\ UNCHANGED <<appointments, event_logs>>
    /\ (/\ proc[p].pc = "update"
        /\ appointments[proc[p].id].status = StatusPending
        /\ ConfirmedCount(appointments[proc[p].id].slot) = 0)
       => /\ appointments' = [appointments EXCEPT ![proc[p].id].status = StatusConfirmed]
          /\ proc'[p].pc = "logConfirmed"
          /\ proc'[p].ret = appointments'[proc[p].id]
          /\ UNCHANGED event_logs
    /\ proc[p].pc = "logConfirmed"
       => /\ event_logs' = Append(event_logs,
                                  [event_type |-> EventAppointmentConfirmed,
                                   appointment_id |-> proc[p].id, reason |-> ""])
          /\ proc'[p].pc = "done"
          /\ proc'[p].err = nil
          /\ proc'[p].ret = proc[p].ret
          /\ UNCHANGED appointments

\* C12: a ConfirmAppointment that loads a Pending appointment whose expires_at
\* is not in the past goes on to the conditional update; the update, finding
\* the row still Pending and no Confirmed appointment for its slot, sets the
\* status to Confirmed and nothing else; the call then appends exactly one
\* APPOINTMENT_CONFIRMED event for the appointment and returns the updated row
\* without error.
C12_ConfirmSucceeds ==
    [][\A p \in Procs :
          ((proc[p].op = "confirm" \/ ConfirmLoadStep(p)) /\ StepOf(p))
          => C12_ConfirmStep(p)]_vars

\* C12 witness: a confirm has returned the row it set to Confirmed and the log
\* holds the APPOINTMENT_CONFIRMED event of that appointment.
C12_Witness ==
    \E p \in Procs :
        /\ Returned(p, "confirm")
        /\ proc[p].err = nil
        /\ proc[p].appt.status = StatusPending
        /\ proc[p].ret.status = StatusConfirmed
        /\ appointments[proc[p].id] = proc[p].ret
        /\ \E k \in DOMAIN event_logs :
              /\ event_logs[k].event_type = EventAppointmentConfirmed
              /\ event_logs[k].appointment_id = proc[p].id

\* ------------------------------------------------------------------ C13

C13_ConfirmStep(p) ==
    /\ (/\ ConfirmLoadStep(p)
        /\ proc'[p].id \in DOMAIN appointments
        /\ appointments[proc'[p].id].status = StatusPending
        /\ appointments[proc'[p].id].expires_at < now)
       => /\ proc'[p].pc = "markExpired"
          /\ UNCHANGED <<appointments, event_logs>>
    /\ proc[p].pc = "markExpired"
       => /\ proc'[p].pc = "logExpired"
          /\ appointments[proc[p].id].status = StatusPending
             => appointments' = [appointments EXCEPT ![proc[p].id].status = StatusExpired]
          /\ \A i \in DOMAIN appointments :
                appointments'[i].status = StatusConfirmed
                => appointments[i].status = StatusConfirmed
          /\ UNCHANGED event_logs
    /\ proc[p].pc = "logExpired"
       => /\ event_logs' = Append(event_logs,
                                  [event_type |-> EventAppointmentExpired,
                                   appointment_id |-> proc[p].id,
                                   reason |-> "confirm_after_expiry"])
          /\ proc'[p].pc = "done"
          /\ proc'[p].err = ErrAppointmentExpiredState
          /\ handleConfirmError(proc'[p].err) = "appointment_expired"
          /\ proc'[p].ret = NoAppt
          /\ appointments[proc[p].id].status # StatusPending
          /\ Won(p, proc[p].id) => appointments[proc[p].id].status = StatusExpired
          /\ UNCHANGED appointments

LoadedPendingPastExpiry(p) ==
    /\ proc[p].op = "confirm"
    /\ proc[p].appt.status = StatusPending
    /\ proc[p].appt.expires_at < proc[p].now

\* C14: whenever a ConfirmAppointment that loaded a Pending appointment past
\* its expiry instant and an expirer run that had this appointment among its
\* candidates have both returned, whatever the order of their steps, the
\* appointment is Expired, the confirm has returned AppointmentExpired, and
\* exactly one of the two conditional Pending->Expired updates changed the row.
C14_ConfirmAndWorkerAgree ==
    \A p \in Procs : \A q \in Procs \ {p} :
        (/\ Returned(p, "confirm")
         /\ LoadedPendingPastExpiry(p)
         /\ Returned(q, "expire")
         /\ Tried(q, proc[p].id))
        => /\ appointments[proc[p].id].status = StatusExpired
           /\ proc[p].err = ErrAppointmentExpiredState
           /\ Tried(p, proc[p].id)
           /\ Won(p, proc[p].id) # Won(q, proc[p].id)

\* C14 witness: both calls have returned, the worker's update changed the row
\* and the confirm's update found it no longer Pending.
C14_Witness ==
    \E p \in Procs : \E q \in Procs \ {p} :
        /\ Returned(p, "confirm")
        /\ LoadedPendingPastExpiry(p)
        /\ Returned(q, "expire")
        /\ Won(q, proc[p].id)
        /\ <<proc[p].id, ErrAppointmentNotFound>> \in proc[p].updates
        /\ appointments[proc[p].id].status = StatusExpired

\* ------------------------------------------------------------ C15, C16

\* the confirm call starting on p returns err at once and writes nothing
RejectedAtLoad(p, err) ==
    /\ proc'[p].pc = "done"
    /\ proc'[p].err = err
    /\ proc'[p].ret = NoAppt
    /\ proc'[p].updates = {}
    /\ UNCHANGED <<appointments, event_logs>>

\* C15: a ConfirmAppointment that loads an appointment whose status is Expired
\* returns AppointmentExpired in that same step: it makes no status update and
\* appends no event.
C15_ConfirmOfExpired ==
    [][\A p \in Procs :
          (/\ ConfirmLoadStep(p)
           /\ proc'[p].id \in DOMAIN appointments
           /\ appointments[proc'[p].id].status = StatusExpired)
          => /\ RejectedAtLoad(p, ErrAppointmentExpiredState)
             /\ handleConfirmError(proc'[p].err) = "appointment_expired"]_vars

\* C15 witness: a confirm of an Expired appointment has returned
\* AppointmentExpired without having run an update.
C15_Witness ==
    \E p \in Procs :
        /\ Returned(p, "confirm")
        /\ proc[p].appt.status = StatusExpired
        /\ proc[p].err = ErrAppointmentExpiredState
        /\ proc[p].updates = {}

\* C16: a ConfirmAppointment that loads an appointment whose status is neither
\* Pending nor Expired and whose expires_at is not in the past returns
\* InvalidStatusTransition in that same step: the appointment and the event
\* log are unchanged.
C16_ConfirmOfNonPending ==
    [][\A p \in Procs :
          (/\ ConfirmLoadStep(p)
           /\ proc'[p].id \in DOMAIN appointments
           /\ appointments[proc'[p].id].status \notin {StatusPending, StatusExpired}
           /\ appointments[proc'[p].id].expires_at >= now)
          => /\ RejectedAtLoad(p, ErrInvalidStatusTransition)
             /\ handleConfirmError(proc'[p].err) = "invalid_status_transition"]_vars

\* C16 witness: a second confirm of a Confirmed appointment, made before the
\* appointment's expiry instant, has returned InvalidStatusTransition.
C16_Witness ==
    \E p \in Procs :
        /\ Returned(p, "confirm")
        /\ proc[p].appt.status = StatusConfirmed
        /\ proc[p].appt.expires_at >= proc[p].now
        /\ proc[p].err = ErrInvalidStatusTransition
        /\ appointments[proc[p].id] = proc[p].appt

\* ------------------------------------------------------------------ C17

\* C17: once an ExpirePendingAppointments run that read the clock at T has
\* returned without error (every store call of the run having succeeded), no
\* appointment is Pending with expires_at earlier than T.
C17_NoPendingBeforeRunStart ==
    \A p \in Procs :
        (Returned(p, "expire") /\ proc[p].err = nil)
        => \A i \in DOMAIN appointments :
              ~(/\ appointments[i].status = StatusPending
                /\ appointments[i].expires_at < proc[p].now)

\* C17 witness: a run has returned after its own update moved an appointment
\* that was Pending past its expiry instant to Expired, while another
\* appointment, created in the meantime, is Pending.
C17_Witness ==
    \E p \in Procs : \E i \in DOMAIN appointments : \E j \in DOMAIN appointments :
        /\ Returned(p, "expire")
        /\ proc[p].err = nil
        /\ Won(p, i)
        /\ appointments[i].status = StatusExpired
        /\ appointments[i].expires_at < proc[p].now
        /\ appointments[j].status = StatusPending
        /\ appointments[j].created_at >= proc[p].now

\* ------------------------------------------------------------------ C18

\* C18 as stated: ExpirePendingAppointments never returns an error.
C18_NeverFails ==
    \A p \in Procs : Returned(p, "expire") => proc[p].err = nil

C18_ExpireStep(p) ==
    /\ proc[p].pc = "expireNext"
       => \E i \in proc[p].cands : \E e \in {nil, ErrAppointmentNotFound, StoreUnavailable} :
             /\ proc'[p].updates = proc[p].updates \cup {<<i, e>>}
             /\ proc'[p].pc = "done" => (proc[p].cands = {i} /\ proc'[p].err = nil)
             /\ proc'[p].pc # "done" => proc'[p].cands = proc[p].cands \ {i}
             /\ e = StoreUnavailable
                => /\ proc'[p].pc \in {"expireNext", "done"}
                   /\ UNCHANGED <<appointments, event_logs>>
    /\ proc[p].pc = "logWorker"
       => /\ proc'[p].pc = "done" => (proc[p].cands = {} /\ proc'[p].err = nil)
          /\ proc'[p].pc # "done"
             => (proc'[p].pc = "expireNext" /\ proc'[p].cands = proc[p].cands)
    /\ (proc'[p].pc = "done" /\ proc'[p].err # nil)
       => /\ proc[p].pc = "idle"
          /\ proc'[p].err = Errorf("find expired pending appointments", StoreUnavailable)
          /\ UNCHANGED <<appointments, event_logs>>

\* C18: ExpirePendingAppointments returns an error only when its scan fails,
\* and then it has changed nothing; once the scan has succeeded, a candidate
\* whose transition fails is skipped (its row and the event log are left as
\* they are), every remaining candidate is still attempted, and the call
\* returns without error.
C18_FailsOnlyOnScan ==
    [][\A p \in Procs :
          ((proc[p].op = "expire" \/ proc'[p].op = "expire") /\ StepOf(p))
          => C18_ExpireStep(p)]_vars

\* C18 witness: in one run the transition of one candidate has failed, that
\* appointment is still Pending, and the run has gone on to expire another
\* candidate.
C18_Witness ==
    \E p \in Procs : \E i \in DOMAIN appointments :
        /\ proc[p].op = "expire"
        /\ proc[p].pc = "logWorker"
        /\ proc[p].cur # i
        /\ <<i, StoreUnavailable>> \in proc[p].updates
        /\ appointments[i].status = StatusPending
        /\ Won(p, proc[p].cur)

\* ------------------------------------------------------------------ C19

\* C19: with expirer runs and confirms running concurrently on any instances,
\* no appointment has its conditional Pending->Expired update succeed in two
\* calls; an appointment whose update succeeded is Expired, and every
\* appointment a call has tried to expire is Expired or Confirmed, never
\* Pending, whichever call made the change.
C19_AtMostOneExpirerWins ==
    \A p \in Procs : \A i \in {u[1] : u \in proc[p].updates} :
        /\ \A q \in Procs \ {p} : ~(Won(p, i) /\ Won(q, i))
        /\ Won(p, i) => appointments[i].status = StatusExpired
        /\ Tried(p, i) => appointments[i].status \in {StatusExpired, StatusConfirmed}

\* C19 witness: two expirer runs had the same appointment among their
\* candidates; the update of one changed the row, the update of the other
\* found it no longer Pending.
C19_Witness ==
    \E p \in Procs : \E q \in Procs \ {p} : \E i \in DOMAIN appointments :
        /\ proc[p].op = "expire"
        /\ proc[q].op = "expire"
        /\ Won(p, i)
        /\ <<i, ErrAppointmentNotFound>> \in proc[q].updates
        /\ appointments[i].status = StatusExpired

\* ------------------------------------------------------------------ C20

\* appointment i is Pending and its expiry instant has passed
PendingPastExpiry(i) ==
    /\ i \in DOMAIN appointments
    /\ appointments[i].status = StatusPending
    /\ appointments[i].expires_at < now

HasStatus(i, st) == i \in DOMAIN appointments /\ appointments[i].status \in st

HoldsKey(p) == InLock(p) /\ locks[proc[p].slotID].val = proc[p].token

\* p is inside the function passed to WithSlotLock and its context is live
RunsBody(p) ==
    /\ proc[p].op = "lock"
    /\ proc[p].pc = "lockBody"
    /\ ~proc[p].cancelled
    /\ ~CtxDone(proc[p].deadline, now)

\* C21: while the key of a WithSlotLock caller still carries its token (it has
\* not TTL-expired), no other WithSlotLock call for the same slot runs its
\* function.
C21_SlotLockExclusive ==
    \A p \in Procs : \A q \in Procs \ {p} :
        (HoldsKey(p) /\ proc[q].slotID = proc[p].slotID) => ~RunsBody(q)

\* ------------------------------------------------------------------ C22

\* C22: once a WithSlotLock call that acquired the lock has returned (its
\* function succeeded, failed, or the caller's context was cancelled or timed
\* out meanwhile), the key of its slot no longer holds the caller's token.
C22_ReleasedOnEveryExit ==
    \A p \in Procs :
        (Returned(p, "lock") /\ proc[p].token # 0)
        => locks[proc[p].slotID].val # proc[p].token

\* ------------------------------------------------------------------ C23

\* the step taken is the deferred release of the WithSlotLock call on p
ReleaseStep(p) ==
    /\ proc[p].op = "lock"
    /\ proc[p].pc = "lockRelease"
    /\ proc'[p].pc = "done"

C23_ReleaseBody(p) ==
    LET key == proc[p].slotID
        token == proc[p].token
    IN  /\ \A k \in SlotIds :
              locks'[k] # locks[k]
              => (k = key /\ locks[k].val = token /\ locks'[k] = NoLock)
        /\ locks[key].val # token => locks' = locks

\* C23: a release deletes nothing but the caller's own key, and only when the
\* key holds the caller's token; when the key is absent or holds the token of
\* another caller (the caller's key expired and the lock was taken over), the
\* release changes nothing.
C23_ReleaseHolderScoped ==
    [][\A p \in Procs : ReleaseStep(p) => C23_ReleaseBody(p)]_vars

\* C23 witness: a call has returned whose release script found the token of
\* another caller in the key, and that caller's key is still there.
C23_Witness ==
    \E p \in Procs :
        /\ Returned(p, "lock")
        /\ proc[p].token # 0
        /\ proc[p].val \notin {0, proc[p].token}
        /\ locks[proc[p].slotID].val = proc[p].val

\* ------------------------------------------------------------------ C24

\* the step taken is the logEvent call of the operation running on p
LogEventStep(p) ==
    /\ proc[p].pc \in {"logCreated", "logExpired", "logConfirmed", "logWorker"}
    /\ StepOf(p)

\* p's position, result and error after the step, with the fields that only
\* record the past left out
Outcome(q) == [pc |-> q.pc, ret |-> q.ret, err |-> q.err, created |-> q.created,
               cands |-> q.cands]

\* what the operation on p does after a logEvent call that stored its event
OutcomeAfterStoredEvent(p) ==
    CASE proc[p].pc = "logCreated" ->
           [pc |-> "release", ret |-> proc[p].ret, err |-> proc[p].err,
            created |-> proc[p].created, cands |-> proc[p].cands]
      [] proc[p].pc = "logExpired" ->
           [pc |-> "done", ret |-> NoAppt, err |-> ErrAppointmentExpiredState,
            created |-> proc[p].created, cands |-> {}]
      [] proc[p].pc = "logConfirmed" ->
           [pc |-> "done", ret |-> proc[p].ret, err |-> nil,
            created |-> proc[p].created, cands |-> {}]
      [] proc[p].pc = "logWorker" ->
           [pc |-> IF proc[p].cands = {} THEN "done" ELSE "expireNext",
            ret |-> NoAppt, err |-> nil,
            created |-> proc[p].created, cands |-> proc[p].cands]

\* C24: whether or not the event of a logEvent call is stored, the operation
\* that made the call (create, confirm, expire run) goes on to the same result
\* and error, and the appointments are the same.
C24_EventFailureChangesNothing ==
    [][\A p \in Procs :
          LogEventStep(p)
          => /\ appointments' = appointments
             /\ Outcome(proc'[p]) = OutcomeAfterStoredEvent(p)]_vars

\* C24 witness: a confirm has returned the Confirmed appointment although its
\* APPOINTMENT_CONFIRMED event was never stored.
C24_Witness ==
    \E p \in Procs :
        /\ Returned(p, "confirm")
        /\ proc[p].err = nil
        /\ proc[p].ret.status = StatusConfirmed
        /\ appointments[proc[p].id].status = StatusConfirmed
        /\ \A i \in 1..Len(event_logs) :
              ~(/\ event_logs[i].event_type = EventAppointmentConfirmed
                /\ event_logs[i].appointment_id = proc[p].id)

\* ------------------------------------------------------------------ C25

\* C25: in every reachable state, every appointment of the table has its
\* expires_at strictly after its created_at.
C25_ExpiresAfterCreated ==
    \A i \in DOMAIN appointments :
        appointments[i].expires_at > appointments[i].created_at

\* C25 witness: the table holds an appointment, and a create whose expiry,
\* stamped by the engine, was no longer after the store's now() at the insert
\* has been rejected by the CHECK.
C25_Witness ==
    /\ Len(appointments) >= 1
    /\ \E p \in Procs :
          /\ Returned(p, "create")
          /\ ErrorsIs(proc[p].err, PgCheckViolation)

\* ------------------------------------------------------------------ C26

\* the ids of the entities of a hydrated appointment agree
Coherent(d) ==
    /\ d.Appointment.SlotID = d.Slot.ID
    /\ d.Appointment.PatientID = d.Patient.ID
    /\ d.Slot.PractitionerID = d.Clinician.ID

\* the id columns of a row agree
CoherentRow(row) ==
    /\ row.a_slot_id = row.s_id
    /\ row.a_patient_id = row.p_id
    /\ row.s_practitioner_id = row.c_id

\* C26: a hydrated read that succeeds returns the appointment, slot, patient
\* and clinician of the row it read, with mutually coherent ids; a read of a
\* row whose ids disagree fails with the integrity error and returns no
\* entity; a failed read never returns an entity.
C26_HydratedReadCoherent ==
    \A p \in Procs :
        Returned(p, "get")
        => /\ proc[p].err = nil
              => /\ proc[p].detail # NoDetail
                 /\ Coherent(proc[p].detail)
                 /\ proc[p].detail.Appointment.SlotID = proc[p].row.a_slot_id
                 /\ proc[p].detail.Appointment.PatientID = proc[p].row.a_patient_id
                 /\ proc[p].detail.Clinician.ID = proc[p].row.c_id
           /\ (proc[p].row # NoRows /\ ~CoherentRow(proc[p].row))
              => ErrorsIs(proc[p].err, IntegrityViolation)
           /\ proc[p].err # nil => proc[p].detail = NoDetail

\* C26 witness: a read of a row whose slot belongs to another clinician than
\* the joined one has failed with the integrity error.
C26_Witness ==
    \E p \in Procs :
        /\ Returned(p, "get")
        /\ proc[p].row # NoRows
        /\ proc[p].row.a_slot_id = proc[p].row.s_id
        /\ proc[p].row.a_patient_id = proc[p].row.p_id
        /\ proc[p].row.s_practitioner_id # proc[p].row.c_id
        /\ ErrorsIs(proc[p].err, IntegrityViolation)

\* ------------------------------------------------------------------ C27

\* the create on p has inserted its Pending row and has not returned yet
CreatedInFlight(p) ==
    /\ proc[p].op = "create"
    /\ proc[p].pc \in {"logCreated", "release"}
    /\ proc[p].created # NoAppt

WorkerEventStep(p) ==
    /\ proc[p].op = "expire"
    /\ proc[p].pc = "logWorker"
    /\ StepOf(p)
    /\ event_logs' = InsertEvent(event_logs, proc[p].cur, EventAppointmentExpired, "worker")

\* C28: an expiry run appends the APPOINTMENT_EXPIRED event with reason
\* "worker" for a candidate only when its own Pending->Expired update of that
\* candidate succeeded; a candidate whose update returned NotFound gets none.
C28_WorkerEventOnlyOnOwnUpdate ==
    [][\A p \in Procs : WorkerEventStep(p) => Won(p, proc[p].cur)]_vars

\* ------------------------------------------------------------------ C29

\* the step taken is a step of the body of the create on p that writes to the
\* store: the insert of its Pending row or the append of its event
BodyWriteStep(p) ==
    /\ proc[p].op = "create"
    /\ proc[p].pc \in {"insert", "logCreated"}
    /\ StepOf(p)
    /\ (appointments' # appointments \/ event_logs' # event_logs)

\* C29: the body of WithSlotLock runs under a deadline that is not later than
\* the expiry of the caller's key, so every store write of the body is made
\* while the key of the slot still carries the caller's token.
C29_NoWriteAfterLockExpiry ==
    [][\A p \in Procs :
          BodyWriteStep(p) => locks[proc[p].slotID].val = proc[p].token]_vars

\* ------------------------------------------------------------------ C30

\* every key in the store has a TTL that is still running and that ends at most
\* LockTTL from now
KeysExpire ==
    \A k \in SlotIds :
        locks[k].val # 0 => (now < locks[k].exp /\ locks[k].exp <= now + LockTTL)

\* the step taken is the SetNX of a WithSlotLock call on p, for a slot whose
\* key is absent
SetNXOnFreeKeyStep(p) ==
    /\ proc[p].pc = "idle"
    /\ proc'[p].op = "lock"
    /\ locks[proc'[p].slotID].val = 0

\* C30: no key outlives the lock TTL, whatever became of its holder (crashed,
\* release failed, still running): a key in the store always has less than
\* LockTTL left, no step extends it, and once it is gone the next call for the
\* slot acquires.
C30_LockNeverHeldForever ==
    /\ []KeysExpire
    /\ [][\A k \in SlotIds :
            (locks[k].val # 0 /\ locks'[k].val = locks[k].val)
            => locks'[k].exp = locks[k].exp]_vars
    /\ [][\A p \in Procs :
            SetNXOnFreeKeyStep(p)
            => /\ proc'[p].pc = "lockTimeout"
               /\ locks'[proc'[p].slotID].val = proc'[p].token]_vars

\* C30 witness: a call returned without releasing its key (its release failed
\* under the cancelled context), the key expired, and another call now holds
\* the lock of that slot.
C30_Witness ==
    \E p \in Procs : \E q \in Procs \ {p} :
        /\ Returned(p, "lock")
        /\ proc[p].cancelled
        /\ proc[p].token # 0
        /\ HoldsKey(q)
        /\ proc[q].slotID = proc[p].slotID

\* the step appends one event of the given type for appointment i
AppendsEvent(type, i) ==
    /\ Len(event_logs') = Len(event_logs) + 1
    /\ event_logs'[Len(event_logs')].event_type = type
    /\ event_logs'[Len(event_logs')].appointment_id = i

EventRefersToCommitted(e) ==
    /\ e.event_type = EventAppointmentCreated => e.appointment_id \in DOMAIN appointments
    /\ e.event_type = EventAppointmentConfirmed =>
           /\ e.appointment_id \in DOMAIN appointments
           /\ appointments[e.appointment_id].status = StatusConfirmed

\* C31: events follow committed state changes: the APPOINTMENT_CREATED event is
\* appended only when its row is already inserted and the APPOINTMENT_CONFIRMED
\* event only when the status is already Confirmed, so in every reachable state
\* each CREATED event refers to an existing appointment and each CONFIRMED event
\* to an appointment whose status is Confirmed.
C31_EventsFollowCommits ==
    /\ [](\A k \in DOMAIN event_logs : EventRefersToCommitted(event_logs[k]))
    /\ [][\A i \in 0..MaxAppts :
            /\ AppendsEvent(EventAppointmentCreated, i) => i \in DOMAIN appointments
            /\ AppendsEvent(EventAppointmentConfirmed, i) =>
                   /\ i \in DOMAIN appointments
                   /\ appointments[i].status = StatusConfirmed]_vars

C31_Witness ==
    /\ \E k \in DOMAIN event_logs : event_logs[k].event_type = EventAppointmentCreated
    /\ \E k \in DOMAIN event_logs : event_logs[k].event_type = EventAppointmentConfirmed
    /\ \E i \in DOMAIN appointments : appointments[i].status = StatusExpired

\* the step is a call of UpdateAppointmentStatus(id, from, to) on p
UpdateCall(p) ==
    /\ proc[p].pc = "idle"
    /\ proc'[p].op = "update"

UpdateCallMatches(p) ==
    /\ proc'[p].id \in DOMAIN appointments
    /\ appointments[proc'[p].id].status = proc'[p].from

\* the update would leave a second Confirmed appointment on the slot
UpdateCallRejected(p) ==
    /\ proc'[p].to = StatusConfirmed
    /\ \E j \in DOMAIN appointments :
         /\ j # proc'[p].id
         /\ appointments[j].slot = appointments[proc'[p].id].slot
         /\ appointments[j].status = StatusConfirmed

\* the table after the step is the table before it with the status of the
\* row of the call set to the target status, and that row is returned
UpdateCallApplied(p) ==
    /\ appointments' = [appointments EXCEPT ![proc'[p].id].status = proc'[p].to]
    /\ proc'[p].ret = appointments'[proc'[p].id]
    /\ proc'[p].dbErr = nil

ConfirmOrExpireStep(p) ==
    /\ StepOf(p)
    /\ proc[p].op \in {"confirm", "expire"} \/ proc'[p].op \in {"confirm", "expire"}

\* C33: ConfirmAppointment and ExpirePendingAppointments never acquire,
\* release or modify a slot lock: every step of theirs leaves the lock store
\* unchanged, whether or not a create holds the key of the appointment's slot.
C33_ConfirmAndExpireLeaveLocks ==
    [][\A p \in Procs : ConfirmOrExpireStep(p) => locks' = locks]_vars

\* a confirm has changed the status while another call's create held the key
\* of the appointment's slot
C33_Witness ==
    \E p \in Procs, q \in Procs :
        /\ p # q
        /\ proc[p].op = "confirm"
        /\ proc[p].pc = "logConfirmed"
        /\ proc[q].op = "create"
        /\ proc[q].pc \in {"withTimeout", "check", "insert", "logCreated", "release"}
        /\ proc[q].slotID = proc[p].ret.slot
        /\ locks[proc[q].slotID].val = proc[q].token

\* ------------------------------------------------------------------ C34

\* the step starts a run of ExpirePendingAppointments
RunStarts == worker'.runs = worker.runs + 1

\* C34: the expiry worker runs ExpirePendingAppointments once at start-up and
\* then once per tick received from its ticker, one run at a time, each run
\* under its own deadline of RunTimeout; once the select has taken the
\* shutdown signal the loop has exited and no further run is started. The run
\* at start-up always happens, and a signalled worker always exits.
C34_WorkerLoop ==
    /\ [][/\ RunStarts =>
              /\ \/ worker.loop = "startup"
                 \/ /\ worker.loop = "select"
                    /\ worker.ticker = 1
                    /\ worker'.ticker = 0
              /\ proc[ExpiryWorker].pc = "idle"
              /\ proc'[ExpiryWorker].deadline = now + RunTimeout
          /\ (worker.loop = "startup" /\ worker'.loop # "startup") => RunStarts
          /\ (StepOf(ExpiryWorker) /\ appointments' # appointments) =>
                 /\ worker.loop = "running"
                 /\ now < proc[ExpiryWorker].deadline
          /\ worker.loop = "exited" =>
                 /\ worker' = worker
                 /\ proc'[ExpiryWorker] = proc[ExpiryWorker]]_vars
    /\ [](worker.loop = "exited" => worker.done)
    /\ <>(worker.runs >= 1)
    /\ (worker.done ~> worker.loop = "exited")

\* the worker has made its run at start-up and a run for a tick, one of them
\* expired an appointment, and the loop has exited on the signal
C34_Witness ==
    /\ worker.loop = "exited"
    /\ worker.runs >= 2
    /\ \E i \in DOMAIN appointments : appointments[i].status = StatusExpired

\* ------------------------------------------------------------------ C35

\* the step moves appointment i to the given status
Becomes(i, status) ==
    /\ i \in DOMAIN appointments
    /\ appointments[i].status # status
    /\ appointments'[i].status = status

\* C35: an appointment becomes Expired only when its expires_at is strictly
\* before the current time at the moment of the transition: neither the worker
\* nor confirm expires a Pending appointment whose expiry instant has not passed.
C35_ExpiredOnlyAfterExpiry ==
    [][\A i \in 1..MaxAppts :
          Becomes(i, StatusExpired) =>
              /\ appointments[i].status = StatusPending
              /\ appointments[i].expires_at < now]_vars

\* the worker has expired one appointment and a confirm has expired another
C35_Witness ==
    \E i \in DOMAIN appointments, j \in DOMAIN appointments :
        /\ appointments[i].status = StatusExpired
        /\ appointments[j].status = StatusExpired
        /\ Won(ApiServer, i) /\ proc[ApiServer].op = "confirm"
        /\ Won(ExpiryWorker, j) /\ proc[ExpiryWorker].op = "expire"

\* ------------------------------------------------------------------ C36

\* C36: an appointment is never moved to Confirmed after its expiry instant: at
\* the step that applies the Pending->Confirmed update, expires_at is not
\* before the current time, whatever happened between the expiry check of
\* confirm and its update.
C36_NeverConfirmedAfterExpiry ==
    [][\A i \in 1..MaxAppts :
          Becomes(i, StatusConfirmed) => ~(appointments[i].expires_at < now)]_vars

\* ------------------------------------------------------------------ C37

\* C37: an APPOINTMENT_EXPIRED event, of either reason, is appended only for
\* an appointment whose stored status is Expired at the time of the append, so
\* no Confirmed appointment ever receives an APPOINTMENT_EXPIRED event.
C37_ExpiredEventOnlyForExpired ==
    /\ [][\A i \in 0..MaxAppts :
            AppendsEvent(EventAppointmentExpired, i) =>
                /\ i \in DOMAIN appointments
                /\ appointments[i].status = StatusExpired]_vars
    /\ [](\A k \in DOMAIN event_logs :
            event_logs[k].event_type = EventAppointmentExpired =>
                appointments[event_logs[k].appointment_id].status # StatusConfirmed)

\* ------------------------------------------------------------------ C38

\* C38: ConfirmAppointment returns AppointmentExpired only for an appointment
\* whose stored status is Expired when the call returns, never for one whose
\* status is Confirmed.
C38_ExpiredResultMeansExpired ==
    \A p \in Procs :
        (Returned(p, "confirm") /\ proc[p].err = ErrAppointmentExpiredState)
            => appointments[proc[p].id].status = StatusExpired

\* ------------------------------------------------------------------ C39

ConfirmedEvents(i) ==
    {k \in DOMAIN event_logs : /\ event_logs[k].event_type = EventAppointmentConfirmed
                               /\ event_logs[k].appointment_id = i}

\* the confirm call on p has made the Pending->Confirmed update of its appointment
ConfirmSucceeds(p) ==
    /\ proc[p].op = "confirm"
    /\ \/ proc[p].pc = "logConfirmed"
       \/ proc[p].pc = "done" /\ proc[p].err = nil

\* the step is the successful return of the confirm call on p
ConfirmReturnsSuccess(p) ==
    /\ proc[p].op = "confirm"
    /\ proc[p].pc # "done"
    /\ proc'[p].pc = "done"
    /\ proc'[p].err = nil

\* C39: when the same Pending appointment is confirmed by concurrent
\* ConfirmAppointment calls, at most one call returns success and at most one
\* APPOINTMENT_CONFIRMED event is appended for that appointment.
C39_OneConfirmWins ==
    /\ [](\A i \in DOMAIN appointments : Cardinality(ConfirmedEvents(i)) <= 1)
    /\ [](\A p \in Procs, q \in Procs :
            (p # q /\ ConfirmSucceeds(p) /\ ConfirmSucceeds(q)) => proc[p].id # proc[q].id)
    /\ [][\A p \in Procs :
            ConfirmReturnsSuccess(p) =>
                /\ ConfirmedEvents(proc[p].id) = {}
                /\ appointments[proc[p].id].status = StatusConfirmed]_vars

\* two calls loaded the same appointment as Pending; one has returned success
\* and the update of the other matched no row
C39_Witness ==
    \E p \in Procs, q \in Procs :
        /\ Returned(p, "confirm") /\ proc[p].err = nil
        /\ Returned(q, "confirm") /\ proc[q].dbErr = ErrAppointmentNotFound
        /\ proc[p].id = proc[q].id
        /\ proc[p].appt.status = StatusPending
        /\ proc[q].appt.status = StatusPending
        /\ proc[q].err = Errorf("confirm appointment", ErrAppointmentNotFound)

\* ------------------------------------------------------------------ C40

\* the step is a step of the CreateAppointment call on p
CreateStep(p) == StepOf(p) /\ proc'[p].op = "create"

====
